---- MODULE Spec2Model ----
(***************************************************************************)
(* Omnistat ROCProfiler-SDK extensions.                                    *)
(*                                                                         *)
(*   - the Counter Sampler, omnistat::DeviceSampler (device.hpp and        *)
(*     device.cpp; the latter is the second file of common.hpp in this     *)
(*     tree), checked under SamplerSpec;                                   *)
(*   - the Trace Buffer Exporter, omnistat::KernelTracer with its          *)
(*     code_object_callback and full_buffer_callback (the second file of   *)
(*     kernel_tracer.cpp, lines 177-455), checked under TracerSpec.        *)
(*                                                                         *)
(* The ROCProfiler-SDK runtime is not part of the repository.  It is the   *)
(* environment of both engines: every answer it can give at a call site    *)
(* is an input of the action that models the call.                         *)
(***************************************************************************)
EXTENDS Integers, Sequences, FiniteSets, TLC

(***************************************************************************)
(* Bounds of the model.                                                    *)
(***************************************************************************)
\* largest counter value the runtime reports in one raw record
MaxVal == 2
\* cap on the directory enumerations one sampler performs
MaxResolutions == 3
\* kernel dispatches the runtime records in one run
MaxDispatches == 2
\* capacity of the device-side record buffer, in records
MaxBuffered == 2
\* last tick of the steady clock
MaxTime == 2
\* periodic_flush_interval_ in ticks (OMNISTAT_TRACE_MAX_INTERVAL)
FlushInterval == 1
\* largest buffer capacity, in bytes, OMNISTAT_TRACE_BUFFER_SIZE is given
MaxCapacity == 64

VARIABLES
    \* ---- DeviceSampler (device.hpp:47-63) ----
    cached_profiles_,       \* counter-name sequence -> profile handle
    profile_sizes_,         \* profile handle -> total scalar size
    profile_counter_ids_,   \* profile handle -> ordered counter ids
    profile_,               \* active profile handle, 0 = none
    records_,               \* raw-record buffer of the last sample
    \* ---- the runtime as the sampler sees it ----
    ctx_active,             \* rocprofiler context ctx_ is started
    resolution_calls,       \* calls of rocprofiler_iterate_agent_supported_counters
    create_calls,           \* calls of rocprofiler_create_profile_config
    rt_handles,             \* runtime: profile handle -> counter ids it was created from
    rt_profile,             \* runtime: profile selected for the started context, 0 = none
    \* ---- what the caller observed ----
    last_call,              \* the call that returned last, with its outcome
    active_request,         \* the request of the successful start() in effect
    started_ok,             \* the requests for which a start() has succeeded
    last_started,           \* the request of the most recent start() that succeeded
    rejected,               \* the requests a start() has refused as unsupported
    \* ---- KernelTracer (kernel_tracer.hpp:61-92) ----
    init_pc,                \* progress of initialize()
    http_client_,           \* "null", "live" or "released"
    agents,                 \* agent handle -> node index
    kernels,                \* kernel id -> demangled name
    buffer_size_bytes_,     \* configured capacity of the device-side buffer
    stop_requested_,
    last_flush_time_,       \* -1 until record_flush_time() has stored a time
    total_flushes_,
    total_records_,
    failed_flushes_,
    failed_records_,
    periodic_mutex_,        \* holder of the mutex: "free", "periodic", "dtor"
    \* ---- the threads ----
    pt,                     \* periodic_thread_: pc, deadline of its wait, notified,
                            \* flush_status of the round
    dt_pc,                  \* the thread running ~KernelTracer
    dt_summary,             \* ~KernelTracer inside lines 367-371: its position, the
                            \* operand it has loaded, and its two locals
    cb,                     \* the thread running full_buffer_callback
    app,                    \* the thread running code_object_callback
    \* ---- the runtime as the tracer sees it ----
    buffer,                 \* dispatch records held by the device-side buffer
    rt_watermark,           \* watermark given to rocprofiler_create_buffer, -1 = none
    rt_flush,               \* who has a flush of the buffer in progress, or "none"
    rt_loaded,              \* kernel symbols loaded: kernel_id -> kernel_name
    rt_seen,                \* <<kernel_id, kernel_name>> ever announced
    dispatched,             \* dispatches recorded so far
    now,                    \* steady clock
    \* ---- what an observer saw ----
    flush_log,              \* the flushes whose request has returned, in order
    failure                 \* the failure that ended the process, or "none"

samplerVars == <<cached_profiles_, profile_sizes_, profile_counter_ids_, profile_,
                 records_, ctx_active, resolution_calls, create_calls, rt_handles,
                 rt_profile, last_call, active_request, started_ok, last_started,
                 rejected>>

tracerVars == <<init_pc, http_client_, agents, kernels, stop_requested_,
                last_flush_time_, total_flushes_, total_records_, failed_flushes_,
                failed_records_, periodic_mutex_, pt, dt_pc, cb, app, buffer, rt_flush,
                rt_loaded, rt_seen, dispatched, now, flush_log, failure,
                buffer_size_bytes_, rt_watermark, dt_summary>>

\* the buffer's configuration: set by the constructor and by initialize only
bufferConfig == <<buffer_size_bytes_, rt_watermark>>

vars == <<samplerVars, tracerVars>>

(***************************************************************************)
(* Helpers                                                                 *)
(***************************************************************************)
EmptyMap == [x \in {} |-> 0]

MapPut(m, k, v) == [x \in (DOMAIN m) \cup {k} |-> IF x = k THEN v ELSE m[x]]

\* std::unordered_map::emplace: inserts only when the key is absent
MapEmplace(m, k, v) == IF k \in DOMAIN m THEN m ELSE MapPut(m, k, v)

RECURSIVE SeqSum(_)
SeqSum(s) == IF s = <<>> THEN 0 ELSE Head(s) + SeqSum(Tail(s))

RECURSIVE SeqProduct(_)
SeqProduct(s) == IF s = <<>> THEN 1 ELSE Head(s) * SeqProduct(Tail(s))

RECURSIVE Concat(_)
Concat(ss) == IF ss = <<>> THEN <<>> ELSE Head(ss) \o Concat(Tail(ss))

(***************************************************************************)
(* The device as the runtime describes it to one sampler.                  *)
(***************************************************************************)
\* names the caller may ask for; "BOGUS" is in no directory
CounterNames == {"GRBM_COUNT", "SQ_WAVES", "BOGUS"}

\* get_supported_counters(): counter name -> counter id of the agent
get_supported_counters == ("GRBM_COUNT" :> 1) @@ ("SQ_WAVES" :> 2)

\* rocprofiler_iterate_counter_dimensions: instance_size of each dimension
CounterDimensions == (1 :> <<1>>) @@ (2 :> <<2, 1>>)

\* a get_counter_size that adds the instance sizes up instead of multiplying
get_counter_sizeAdds(counter) == 1 + SeqSum(CounterDimensions[counter])

\* get_counter_size(): product of the per-dimension instance sizes
get_counter_size(counter) == SeqProduct(CounterDimensions[counter])

\* a value-initialised rocprofiler_record_counter_t, as vector::resize adds
ZeroRecord == [id |-> <<0, 0>>, counter_value |-> 0]

\* a record id names a counter and one instance of it;
\* rocprofiler_query_record_counter_id extracts the counter
query_record_counter_id(id) == id[1]

\* the requests the caller makes: two orders of one counter set, a request
\* with a duplicate, and one with a name the directory does not hold
Requests ==
    { <<"GRBM_COUNT", "SQ_WAVES">>, <<"SQ_WAVES", "GRBM_COUNT">>,
      <<"GRBM_COUNT", "GRBM_COUNT">>,
      <<"GRBM_COUNT", "BOGUS">> }

\* active_request when no successful start() is in effect
NoRequest == <<"-">>

\* what the runtime can answer to the calls one start()/stop() makes
RuntimeAnswers == {"ok", "directory_fails", "create_fails", "context_fails"}

(***************************************************************************)
(* DeviceSampler::start and its parts                                      *)
(***************************************************************************)
\* a cache keyed by the set of names: every reordering of a request is one key
CacheKeyAnyOrder(counters) ==
    CHOOSE c \in Requests :
        \A x \in CounterNames :
            Cardinality({i \in DOMAIN c : c[i] = x}) =
            Cardinality({i \in DOMAIN counters : counters[i] = x})

\* cached_profiles_ is a std::map keyed by std::vector<std::string>: two
\* requests are the same key exactly when they are the same sequence
CacheKey(counters) == counters

\* a resolution loop that skips a name the directory does not hold
RECURSIVE ResolveSkipsUnknown(_, _, _)
ResolveSkipsUnknown(counters, counter_ids, profile_size) ==
    IF counters = <<>>
    THEN [ok |-> TRUE, counter_ids |-> counter_ids, profile_size |-> profile_size,
          offending |-> ""]
    ELSE IF Head(counters) \notin DOMAIN get_supported_counters
         THEN ResolveSkipsUnknown(Tail(counters), counter_ids, profile_size)
         ELSE LET id == get_supported_counters[Head(counters)]
              IN  ResolveSkipsUnknown(Tail(counters), Append(counter_ids, id),
                                      profile_size + get_counter_size(id))

\* the loop of start() over the requested names, in request order: it stops
\* at the first name that is not in the directory
RECURSIVE ResolveCounters(_, _, _)
ResolveCounters(counters, counter_ids, profile_size) ==
    IF counters = <<>>
    THEN [ok |-> TRUE, counter_ids |-> counter_ids, profile_size |-> profile_size,
          offending |-> ""]
    ELSE IF Head(counters) \notin DOMAIN get_supported_counters
         THEN [ok |-> FALSE, counter_ids |-> counter_ids, profile_size |-> profile_size,
               offending |-> Head(counters)]
         ELSE LET id == get_supported_counters[Head(counters)]
              IN  ResolveCounters(Tail(counters), Append(counter_ids, id),
                                  profile_size + get_counter_size(id))

\* std::vector::resize: keeps the first n elements, pads with zero records
Resize(recs, n) ==
    [i \in 1..n |-> IF i <= Len(recs) THEN recs[i] ELSE ZeroRecord]

\* set_profile(): the answer to the runtime's profile-selection callback;
\* 0 stands for "cb is not called"
set_profile(profile) == IF profile # 0 THEN profile ELSE 0

\* the tail of start() shared by the hit and the miss path (lines 241-243)
Activate(counters, profile, profile_size, rt) ==
    /\ profile_' = profile
    /\ records_' = Resize(records_, profile_size)
    /\ UNCHANGED rejected
    /\ IF rt = "context_fails"
       THEN /\ UNCHANGED <<ctx_active, rt_profile, started_ok, last_started>>
            /\ active_request' = NoRequest
            /\ last_call' = [op |-> "start", arg |-> counters, status |-> "context_error",
                             offending |-> "", result |-> <<>>, delivered |-> <<>>]
       ELSE /\ ctx_active' = TRUE
            /\ rt_profile' = IF set_profile(profile) # 0 THEN set_profile(profile)
                             ELSE rt_profile
            /\ started_ok' = started_ok \cup {counters}
            /\ last_started' = counters
            /\ active_request' = counters
            /\ last_call' = [op |-> "start", arg |-> counters, status |-> "ok",
                             offending |-> "", result |-> <<>>, delivered |-> <<>>]

\* a start() that has already assigned its still empty local profile to
\* profile_ when it throws
StartThrowsClearsProfile(counters, status, offending) ==
    /\ profile_' = 0
    /\ UNCHANGED <<cached_profiles_, profile_sizes_, profile_counter_ids_,
                   records_, ctx_active, rt_profile, started_ok, last_started,
                   active_request>>
    /\ rejected' = IF status = "unsupported" THEN rejected \cup {counters} ELSE rejected
    /\ last_call' = [op |-> "start", arg |-> counters, status |-> status,
                     offending |-> offending, result |-> <<>>, delivered |-> <<>>]

\* start() throws before anything is stored
StartThrows(counters, status, offending) ==
    /\ UNCHANGED <<cached_profiles_, profile_sizes_, profile_counter_ids_, profile_,
                   records_, ctx_active, rt_profile, started_ok, last_started,
                   active_request>>
    /\ rejected' = IF status = "unsupported" THEN rejected \cup {counters} ELSE rejected
    /\ last_call' = [op |-> "start", arg |-> counters, status |-> status,
                     offending |-> offending, result |-> <<>>, delivered |-> <<>>]

\* cache hit (lines 236-239): no resolution, no profile creation
StartHit(counters, rt) ==
    LET profile == cached_profiles_[CacheKey(counters)]
        profile_size == profile_sizes_[profile]
    IN  /\ UNCHANGED <<cached_profiles_, profile_sizes_, profile_counter_ids_,
                       resolution_calls, create_calls, rt_handles>>
        /\ Activate(counters, profile, profile_size, rt)

\* cache miss (lines 215-235)
StartMiss(counters, rt) ==
    LET r == ResolveCounters(counters, <<>>, 0)
        profile == Cardinality(DOMAIN rt_handles) + 1
    IN  /\ resolution_calls < MaxResolutions
        /\ resolution_calls' = resolution_calls + 1
        /\ IF rt = "directory_fails"
           THEN /\ UNCHANGED <<create_calls, rt_handles>>
                /\ StartThrows(counters, "directory_error", "")
           ELSE IF ~r.ok
           THEN /\ UNCHANGED <<create_calls, rt_handles>>
                /\ StartThrows(counters, "unsupported", r.offending)
           ELSE /\ create_calls' = create_calls + 1
                /\ IF rt = "create_fails"
                   THEN /\ UNCHANGED rt_handles
                        /\ StartThrows(counters, "create_error", "")
                   ELSE /\ rt_handles' = MapPut(rt_handles, profile, r.counter_ids)
                        /\ cached_profiles_' =
                               MapEmplace(cached_profiles_, CacheKey(counters), profile)
                        /\ profile_sizes_' =
                               MapEmplace(profile_sizes_, profile, r.profile_size)
                        /\ profile_counter_ids_' =
                               MapEmplace(profile_counter_ids_, profile, r.counter_ids)
                        /\ Activate(counters, profile, r.profile_size, rt)

\* a start() whose cache lookup never finds the request
startNeverHits(counters, rt) == StartMiss(counters, rt)

start(counters, rt) ==
    IF CacheKey(counters) \in DOMAIN cached_profiles_
    THEN StartHit(counters, rt)
    ELSE StartMiss(counters, rt)

(***************************************************************************)
(* DeviceSampler::stop                                                     *)
(***************************************************************************)
\* a stop() that also drops the cache entries of the profile it deactivates
stopEvictsActive(rt) ==
    /\ cached_profiles_' =
           [c \in {k \in DOMAIN cached_profiles_ : cached_profiles_[k] # profile_} |->
               cached_profiles_[c]]
    /\ UNCHANGED <<profile_sizes_, profile_counter_ids_, profile_,
                   records_, resolution_calls, create_calls, rt_handles, rt_profile,
                   active_request, started_ok, last_started, rejected>>
    /\ IF rt = "context_fails"
       THEN /\ UNCHANGED ctx_active
            /\ last_call' = [op |-> "stop", arg |-> <<>>, status |-> "context_error",
                             offending |-> "", result |-> <<>>, delivered |-> <<>>]
       ELSE /\ ctx_active' = FALSE
            /\ last_call' = [op |-> "stop", arg |-> <<>>, status |-> "ok",
                             offending |-> "", result |-> <<>>, delivered |-> <<>>]

stop(rt) ==
    /\ UNCHANGED <<cached_profiles_, profile_sizes_, profile_counter_ids_, profile_,
                   records_, resolution_calls, create_calls, rt_handles, rt_profile,
                   active_request, started_ok, last_started, rejected>>
    /\ IF rt = "context_fails"
       THEN /\ UNCHANGED ctx_active
            /\ last_call' = [op |-> "stop", arg |-> <<>>, status |-> "context_error",
                             offending |-> "", result |-> <<>>, delivered |-> <<>>]
       ELSE /\ ctx_active' = FALSE
            /\ last_call' = [op |-> "stop", arg |-> <<>>, status |-> "ok",
                             offending |-> "", result |-> <<>>, delivered |-> <<>>]

(***************************************************************************)
(* DeviceSampler::sample and its parts                                     *)
(***************************************************************************)
\* the counter instances the runtime samples for a list of counter ids
Instances(counter_ids) ==
    Concat([i \in 1..Len(counter_ids) |->
               [d \in 1..get_counter_size(counter_ids[i]) |-> <<counter_ids[i], d>>]])

\* the records rocprofiler_sample_device_counting_service may write: none when
\* the context is not started or the request fails, else one record for each
\* instance of the selected profile, as far as the buffer holds them; the
\* records of one call carry one value v
RuntimeSamples ==
    LET inst == IF rt_profile \in DOMAIN rt_handles
                THEN Instances(rt_handles[rt_profile]) ELSE <<>>
        most == IF ctx_active
                THEN IF Len(inst) < Len(records_) THEN Len(inst) ELSE Len(records_)
                ELSE 0
    IN  {[i \in 1..n |-> [id |-> inst[i], counter_value |-> v]] :
            n \in {0, most}, v \in 1..MaxVal}

\* the runtime writes its records over the front of the buffer
WriteRecords(recs, delivered) ==
    [i \in 1..Len(recs) |-> IF i <= Len(delivered) THEN delivered[i] ELSE recs[i]]

\* the aggregation loop (lines 260-264): one sum per counter id, over the
\* records the loop visits
AggregateOf(recs, counter) ==
    SeqSum([i \in 1..Len(recs) |->
               IF query_record_counter_id(recs[i].id) = counter
               THEN recs[i].counter_value ELSE 0])

\* the records the aggregation loop visits: every slot of records_
VisitedRecords(recs, delivered) == recs

sample(delivered) ==
    LET recs == WriteRecords(records_, delivered)
        ids_map == MapEmplace(profile_counter_ids_, profile_, <<>>)
        counter_ids == ids_map[profile_]
        visited == VisitedRecords(recs, delivered)
        result == [i \in 1..Len(counter_ids) |-> AggregateOf(visited, counter_ids[i])]
    IN  /\ records_' = recs
        /\ profile_counter_ids_' = ids_map
        /\ last_call' = [op |-> "sample", arg |-> <<>>, status |-> "ok",
                         offending |-> "", result |-> result, delivered |-> delivered]
        /\ UNCHANGED <<cached_profiles_, profile_sizes_, profile_, ctx_active,
                       resolution_calls, create_calls, rt_handles, rt_profile,
                       active_request, started_ok, last_started, rejected>>

(***************************************************************************)
(* The profile-selection callback registered by the constructor            *)
(***************************************************************************)
\* the runtime asks (lines 163-169) and set_profile answers: cb is called with
\* profile_ when its handle is not 0, and the runtime selects what it is given
AskProfile ==
    LET supplied == set_profile(profile_) IN
    /\ rt_profile' = IF supplied # 0 THEN supplied ELSE rt_profile
    /\ last_call' = [op |-> "set_profile", arg |-> <<>>, status |-> "ok", offending |-> "",
                     result |-> IF supplied # 0 THEN <<supplied>> ELSE <<>>,
                     delivered |-> <<>>]
    /\ UNCHANGED <<cached_profiles_, profile_sizes_, profile_counter_ids_, profile_,
                   records_, ctx_active, resolution_calls, create_calls, rt_handles,
                   active_request, started_ok, last_started, rejected>>

(***************************************************************************)
(* The Trace Buffer Exporter: omnistat::KernelTracer and its callbacks     *)
(***************************************************************************)
\* kernel_tracer.hpp:44
DEFAULT_BUFFER_SIZE_BYTES == 262144

\* build_agent_map(): agent.id.handle -> agent.node_id of the GPU agents
build_agent_map == (101 :> 0) @@ (102 :> 1)

\* the kernel symbols a load can announce: <<kernel_id, mangled kernel_name>>
KernelSymbols == {<<1, "_Z6vecAddPfS_S_">>, <<1, "copy_kernel">>, <<2, "copy_kernel">>}

\* the same without a kernel id that comes back under another name
FirstSymbols == {<<1, "_Z6vecAddPfS_S_">>, <<2, "copy_kernel">>}

\* abi::__cxa_demangle for the names above
CxaDemangle == ("_Z6vecAddPfS_S_" :> "vecAdd(float*, float*, float*)")

\* a demangle that gives every name back as it came
demangle_nothing(mangled_name) == mangled_name

\* demangle(): the demangled name when status == 0, else the name as given
demangle(mangled_name) ==
    IF mangled_name \in DOMAIN CxaDemangle THEN CxaDemangle[mangled_name]
    ELSE mangled_name

\* buffer_watermark_bytes (kernel_tracer.cpp:326), with the record as unit
Watermark(buffer_size) == buffer_size - (buffer_size \div 8)

\* no response of a Post (a null result)
NoResponse == [responded |-> FALSE, status |-> 0]

\* what an HTTP Post can give back: no response at all, or one with a status
PostResults ==
    {NoResponse} \cup
    {[responded |-> TRUE, status |-> st] : st \in {399, 400}}

\* a success test that takes any response for a success
PostSucceededOnAnyResponse(res) == res.responded

\* bool success = res && res->status < 400
PostSucceeded(res) == res.responded /\ res.status < 400

\* answers of rocprofiler_flush_buffer: busy while a flush of the buffer is in
\* progress, success otherwise, or some other error status
FlushAnswers == IF rt_flush # "none" THEN {"busy", "error"} ELSE {"success", "error"}

\* the callback thread outside full_buffer_callback; during a call batch holds
\* the num_headers records of the call and headers says whether the pointer to
\* their array is one ("array") or nullptr ("null")
IdleCallback ==
    [pc |-> "idle", batch |-> <<>>, headers |-> "array", i |-> 0, data |-> <<>>,
     started |-> -1, body |-> "", res |-> NoResponse, failed |-> FALSE]

\* the application thread outside code_object_callback; during a call kernel
\* and name are those of the notification and status is flush_status
IdleApp == [pc |-> "idle", kernel |-> 0, name |-> "", status |-> ""]

Alive == failure = "none"

\* the context is started and the tool has not been finalized
Tracing == Alive /\ init_pc \in {"context_started", "running"} /\ dt_pc = "none"

TracerConstructedWith(capacity) ==
    /\ buffer_size_bytes_ = capacity
    /\ rt_watermark = -1
    /\ init_pc = "new"
    /\ http_client_ = "null"
    /\ agents = EmptyMap
    /\ kernels = EmptyMap
    /\ stop_requested_ = FALSE
    /\ last_flush_time_ = -1
    /\ total_flushes_ = 0
    /\ total_records_ = 0
    /\ failed_flushes_ = 0
    /\ failed_records_ = 0
    /\ periodic_mutex_ = "free"
    /\ pt = [pc |-> "none", deadline |-> 0, notified |-> FALSE, status |-> ""]
    /\ dt_pc = "none"
    /\ dt_summary = [pc |-> "records", operand |-> "", value |-> 0,
                     successful_records |-> 0, successful_flushes |-> 0]
    /\ cb = IdleCallback
    /\ app = IdleApp
    /\ buffer = <<>>
    /\ rt_flush = "none"
    /\ rt_loaded = EmptyMap
    /\ rt_seen = {}
    /\ dispatched = 0
    /\ now = 0
    /\ flush_log = <<>>
    /\ failure = "none"

\* the tracer as constructed with OMNISTAT_TRACE_BUFFER_SIZE unset
TracerConstructed == TracerConstructedWith(DEFAULT_BUFFER_SIZE_BYTES)

\* the runtime starts a flush: the records held go to full_buffer_callback on
\* the buffer's callback thread, and the buffer takes new records meanwhile
DeliverBuffer(who) ==
    /\ rt_flush' = who
    /\ cb' = [IdleCallback EXCEPT !.pc = "entry", !.batch = buffer]
    /\ buffer' = <<>>

(***************************************************************************)
(* KernelTracer::initialize (lines 308-355)                                *)
(***************************************************************************)
\* how the runtime answers initialize: every call accepted and the context
\* valid, some call rejected (ROCPROFILER_CALL throws), or the context invalid
InitAnswers == {"ok", "rejected", "invalid"}

\* where initialize is after lines 309-349: it threw, it returned -1, or the
\* context is started
InitOutcome(rt) ==
    IF rt = "ok" THEN "context_started"
    ELSE IF rt = "rejected" THEN "threw" ELSE "returned_failure"

InitFailed == {"threw", "returned_failure"}

\* a watermark of one eighth of the capacity
buffer_watermark_bytesEighth(capacity) == capacity \div 8

\* line 326, in uint64_t: the capacity minus its integer eighth; the
\* difference lies in 0 .. capacity, so it never wraps
buffer_watermark_bytes(capacity) == capacity - (capacity \div 8)

\* lines 326-331: the buffer is created with the watermark; a call the runtime
\* rejects is one before rocprofiler_create_buffer, that call, or a later one
CreateBuffer(rt) ==
    IF rt = "rejected"
    THEN rt_watermark' \in {rt_watermark, buffer_watermark_bytes(buffer_size_bytes_)}
    ELSE rt_watermark' = buffer_watermark_bytes(buffer_size_bytes_)

\* an initialize that starts the periodic thread whatever the runtime answered
InitializeConfigureStartsThread(rt) ==
    /\ Alive /\ init_pc = "new"
    /\ http_client_' = "live"
    /\ agents' = build_agent_map
    /\ init_pc' = InitOutcome(rt)
    /\ pt' = [pt EXCEPT !.pc = "lock"]
    /\ CreateBuffer(rt)
    /\ UNCHANGED <<samplerVars, buffer_size_bytes_, dt_summary>>
    /\ UNCHANGED <<kernels, stop_requested_, last_flush_time_, total_flushes_,
                   total_records_, failed_flushes_, failed_records_, periodic_mutex_,
                   dt_pc, cb, app, buffer, rt_flush, rt_loaded, rt_seen, dispatched,
                   now, flush_log, failure>>

\* lines 309-349: client, agent map, runtime configuration, context start
InitializeConfigure(rt) ==
    /\ Alive /\ init_pc = "new"
    /\ http_client_' = "live"
    /\ agents' = build_agent_map
    /\ init_pc' = InitOutcome(rt)
    /\ CreateBuffer(rt)
    /\ UNCHANGED <<samplerVars, buffer_size_bytes_, dt_summary>>
    /\ UNCHANGED <<kernels, stop_requested_, last_flush_time_, total_flushes_,
                   total_records_, failed_flushes_, failed_records_, periodic_mutex_,
                   pt, dt_pc, cb, app, buffer, rt_flush, rt_loaded, rt_seen, dispatched,
                   now, flush_log, failure>>

\* an initialize that starts the periodic thread without record_flush_time()
InitializeStartThreadSkipsRecord ==
    /\ Alive /\ init_pc = "context_started"
    /\ pt' = [pc |-> "lock", deadline |-> 0, notified |-> FALSE, status |-> ""]
    /\ init_pc' = "running"
    /\ UNCHANGED <<samplerVars, bufferConfig, dt_summary>>
    /\ UNCHANGED <<http_client_, agents, kernels, stop_requested_, last_flush_time_,
                   total_flushes_, total_records_, failed_flushes_, failed_records_,
                   periodic_mutex_, dt_pc, cb, app, buffer, rt_flush, rt_loaded, rt_seen,
                   dispatched, now, flush_log, failure>>

\* lines 351-354: record_flush_time(), then the periodic thread is started
InitializeStartThread ==
    /\ Alive /\ init_pc = "context_started"
    /\ last_flush_time_' = now
    /\ pt' = [pc |-> "lock", deadline |-> 0, notified |-> FALSE, status |-> ""]
    /\ init_pc' = "running"
    /\ UNCHANGED <<samplerVars, bufferConfig, dt_summary>>
    /\ UNCHANGED <<http_client_, agents, kernels, stop_requested_, total_flushes_,
                   total_records_, failed_flushes_, failed_records_, periodic_mutex_,
                   dt_pc, cb, app, buffer, rt_flush, rt_loaded, rt_seen, dispatched,
                   now, flush_log, failure>>

(***************************************************************************)
(* code_object_callback (lines 231-257), on an application thread          *)
(***************************************************************************)
\* kernel-symbol LOAD: kernels.emplace(...) begins
KernelLoadBegin(k, name) ==
    /\ Tracing /\ app.pc = "idle"
    /\ k \notin DOMAIN rt_loaded /\ <<k, name>> \notin rt_seen
    /\ rt_seen' = rt_seen \cup {<<k, name>>}
    /\ app' = [pc |-> "emplace", kernel |-> k, name |-> name, status |-> ""]
    /\ UNCHANGED <<samplerVars, bufferConfig, dt_summary>>
    /\ UNCHANGED <<init_pc, http_client_, agents, kernels, stop_requested_,
                   last_flush_time_, total_flushes_, total_records_, failed_flushes_,
                   failed_records_, periodic_mutex_, pt, dt_pc, cb, buffer, rt_flush,
                   rt_loaded, dispatched, now, flush_log, failure>>

\* ... and has inserted (kernel_id, demangle(kernel_name))
KernelLoadEnd ==
    /\ Alive /\ app.pc = "emplace"
    /\ kernels' = MapEmplace(kernels, app.kernel, demangle(app.name))
    /\ rt_loaded' = MapPut(rt_loaded, app.kernel, app.name)
    /\ app' = IdleApp
    /\ UNCHANGED <<samplerVars, bufferConfig, dt_summary>>
    /\ UNCHANGED <<init_pc, http_client_, agents, stop_requested_, last_flush_time_,
                   total_flushes_, total_records_, failed_flushes_, failed_records_,
                   periodic_mutex_, pt, dt_pc, cb, buffer, rt_flush, rt_seen,
                   dispatched, now, flush_log, failure>>

\* what ROCPROFILER_CALL(rocprofiler_flush_buffer(...)) does with an answer on
\* kernel-symbol UNLOAD (line 253): it throws on every status but success
UnloadFlushThrows(answer) == answer # "success"

\* kernel-symbol UNLOAD: the flush is requested
KernelUnloadBegin(k, answer) ==
    /\ Tracing /\ app.pc = "idle" /\ k \in DOMAIN rt_loaded
    /\ rt_loaded' = [x \in (DOMAIN rt_loaded) \ {k} |-> rt_loaded[x]]
    /\ IF UnloadFlushThrows(answer)
       THEN /\ failure' = "unload_flush_" \o answer
            /\ UNCHANGED <<app, cb, buffer, rt_flush>>
       ELSE /\ UNCHANGED failure
            /\ IF buffer = <<>>
               THEN /\ app' = [pc |-> "erase", kernel |-> k, name |-> "", status |-> ""]
                    /\ UNCHANGED <<cb, buffer, rt_flush>>
               ELSE /\ app' = [pc |-> "unload_wait", kernel |-> k, name |-> "", status |-> ""]
                    /\ DeliverBuffer("app")
    /\ UNCHANGED <<samplerVars, bufferConfig, dt_summary>>
    /\ UNCHANGED <<init_pc, http_client_, agents, kernels, stop_requested_,
                   last_flush_time_, total_flushes_, total_records_, failed_flushes_,
                   failed_records_, periodic_mutex_, pt, dt_pc, rt_seen, dispatched,
                   now, flush_log>>

\* rocprofiler_flush_buffer has returned: kernels.erase(...) begins
KernelUnloadFlushed ==
    /\ Alive /\ app.pc = "unload_wait" /\ rt_flush # "app"
    /\ app' = [app EXCEPT !.pc = "erase"]
    /\ UNCHANGED <<samplerVars, bufferConfig, dt_summary>>
    /\ UNCHANGED <<init_pc, http_client_, agents, kernels, stop_requested_,
                   last_flush_time_, total_flushes_, total_records_, failed_flushes_,
                   failed_records_, periodic_mutex_, pt, dt_pc, cb, buffer, rt_flush,
                   rt_loaded, rt_seen, dispatched, now, flush_log, failure>>

\* a kernel-symbol unload that returns with the entry still in place
KernelUnloadKeepsEntry ==
    /\ Alive /\ app.pc = "erase"
    /\ kernels' = kernels
    /\ app' = IdleApp
    /\ UNCHANGED <<samplerVars, bufferConfig, dt_summary>>
    /\ UNCHANGED <<init_pc, http_client_, agents, stop_requested_, last_flush_time_,
                   total_flushes_, total_records_, failed_flushes_, failed_records_,
                   periodic_mutex_, pt, dt_pc, cb, buffer, rt_flush, rt_loaded, rt_seen,
                   dispatched, now, flush_log, failure>>

\* ... and has erased the entry
KernelUnloadErase ==
    /\ Alive /\ app.pc = "erase"
    /\ kernels' = [x \in (DOMAIN kernels) \ {app.kernel} |-> kernels[x]]
    /\ app' = IdleApp
    /\ UNCHANGED <<samplerVars, bufferConfig, dt_summary>>
    /\ UNCHANGED <<init_pc, http_client_, agents, stop_requested_, last_flush_time_,
                   total_flushes_, total_records_, failed_flushes_, failed_records_,
                   periodic_mutex_, pt, dt_pc, cb, buffer, rt_flush, rt_loaded, rt_seen,
                   dispatched, now, flush_log, failure>>

\* a code-object unload that throws on every status but success, busy included
ObjectFlushThrowsOnBusy(answer) == answer # "success"

\* what lines 242-243 do with an answer on code-object UNLOAD: busy is let
\* through, every other status but success throws
ObjectFlushThrows(answer) == answer \notin {"success", "busy"}

\* code-object UNLOAD (lines 236-241): rocprofiler_flush_buffer is called and
\* its status kept in flush_status
CodeObjectUnload(answer) ==
    /\ Tracing /\ app.pc = "idle"
    /\ app' = [pc |-> "object_wait", kernel |-> 0, name |-> "", status |-> answer]
    /\ IF answer # "success" \/ buffer = <<>>
       THEN UNCHANGED <<cb, buffer, rt_flush>>
       ELSE DeliverBuffer("app")
    /\ UNCHANGED <<samplerVars, bufferConfig, dt_summary>>
    /\ UNCHANGED <<init_pc, http_client_, agents, kernels, stop_requested_,
                   last_flush_time_, total_flushes_, total_records_, failed_flushes_,
                   failed_records_, periodic_mutex_, pt, dt_pc, rt_loaded, rt_seen,
                   dispatched, now, flush_log, failure>>

\* rocprofiler_flush_buffer has returned; lines 242-243 throw on a status
\* other than success and busy, and the notification returns otherwise
CodeObjectFlushed ==
    /\ Alive /\ app.pc = "object_wait" /\ rt_flush # "app"
    /\ IF ObjectFlushThrows(app.status)
       THEN failure' = "object_flush_" \o app.status /\ UNCHANGED app
       ELSE app' = IdleApp /\ UNCHANGED failure
    /\ UNCHANGED <<samplerVars, bufferConfig, dt_summary>>
    /\ UNCHANGED <<init_pc, http_client_, agents, kernels, stop_requested_,
                   last_flush_time_, total_flushes_, total_records_, failed_flushes_,
                   failed_records_, periodic_mutex_, pt, dt_pc, cb, buffer, rt_flush,
                   rt_loaded, rt_seen, dispatched, now, flush_log>>

(***************************************************************************)
(* The runtime's dispatch tracing into the buffer created at lines 328-335 *)
(***************************************************************************)
\* the kernel launches the application makes: <<agent handle, kernel id>>;
\* a record's loaded_name is not in the runtime's record: it remembers the
\* name the kernel was loaded with when dispatched
Dispatches == {<<101, 1>>, <<102, 2>>}

RuntimeDispatch(a, k) ==
    /\ Tracing /\ k \in DOMAIN rt_loaded
    /\ dispatched < MaxDispatches /\ Len(buffer) < MaxBuffered
    /\ buffer' = Append(buffer, [kind |-> "kernel_dispatch",
                                 agent_id |-> a, kernel_id |-> k,
                                 start_timestamp |-> 2 * dispatched + 1,
                                 end_timestamp |-> 2 * dispatched + 2,
                                 loaded_name |-> rt_loaded[k]])
    /\ dispatched' = dispatched + 1
    /\ UNCHANGED <<samplerVars, bufferConfig, dt_summary>>
    /\ UNCHANGED <<init_pc, http_client_, agents, kernels, stop_requested_,
                   last_flush_time_, total_flushes_, total_records_, failed_flushes_,
                   failed_records_, periodic_mutex_, pt, dt_pc, cb, app, rt_flush,
                   rt_loaded, rt_seen, now, flush_log, failure>>

\* the buffer has reached its watermark: the runtime flushes it on its own
RuntimeWatermarkFlush ==
    /\ Alive /\ init_pc \in {"context_started", "running"}
    /\ rt_flush = "none" /\ Len(buffer) >= Watermark(MaxBuffered)
    /\ DeliverBuffer("watermark")
    /\ UNCHANGED <<samplerVars, bufferConfig, dt_summary>>
    /\ UNCHANGED <<init_pc, http_client_, agents, kernels, stop_requested_,
                   last_flush_time_, total_flushes_, total_records_, failed_flushes_,
                   failed_records_, periodic_mutex_, pt, dt_pc, app, rt_loaded, rt_seen,
                   dispatched, now, flush_log, failure>>

\* the records a caller of full_buffer_callback can put in a batch: agent 103
\* is not a GPU agent of build_agent_map, kernel 3 is never loaded, and one
\* record is of another category or kind than a kernel dispatch
HandedRecords ==
    {[kind |-> "kernel_dispatch", agent_id |-> a, kernel_id |-> k,
      start_timestamp |-> 1, end_timestamp |-> 2, loaded_name |-> ""] :
        a \in {101, 103}, k \in {1, 3}}
    \cup {[kind |-> "other", agent_id |-> 101, kernel_id |-> 1,
           start_timestamp |-> 1, end_timestamp |-> 2, loaded_name |-> ""]}

\* the batches of at most MaxBuffered of them, the empty one included
HandedBatches ==
    UNION {[1..n -> HandedRecords] : n \in 0..MaxBuffered}

\* full_buffer_callback is entered with headers and num_headers as its caller
\* chose them (lines 259-262)
RuntimeInvokesCallback(batch, headers) ==
    /\ Tracing /\ rt_flush = "none" /\ cb.pc = "idle"
    /\ dispatched + Len(batch) <= MaxDispatches
    /\ dispatched' = dispatched + Len(batch)
    /\ rt_flush' = "runtime"
    /\ cb' = [IdleCallback EXCEPT !.pc = "entry", !.batch = batch, !.headers = headers]
    /\ UNCHANGED <<samplerVars, bufferConfig, dt_summary>>
    /\ UNCHANGED <<init_pc, http_client_, agents, kernels, stop_requested_,
                   last_flush_time_, total_flushes_, total_records_, failed_flushes_,
                   failed_records_, periodic_mutex_, pt, dt_pc, app, buffer, rt_loaded,
                   rt_seen, now, flush_log, failure>>

Tick ==
    /\ Alive /\ now < MaxTime
    /\ now' = now + 1
    /\ UNCHANGED <<samplerVars, bufferConfig, dt_summary>>
    /\ UNCHANGED <<init_pc, http_client_, agents, kernels, stop_requested_,
                   last_flush_time_, total_flushes_, total_records_, failed_flushes_,
                   failed_records_, periodic_mutex_, pt, dt_pc, cb, app, buffer, rt_flush,
                   rt_loaded, rt_seen, dispatched, flush_log, failure>>

(***************************************************************************)
(* full_buffer_callback (lines 259-300) and flush (377-383), on the        *)
(* buffer's callback thread                                                *)
(***************************************************************************)
\* a callback that goes on to the loop whatever it was handed
FullBufferEnterUnchecked ==
    /\ Alive /\ cb.pc = "entry"
    /\ cb' = [cb EXCEPT !.pc = "format", !.i = 1] /\ UNCHANGED failure
    /\ UNCHANGED <<samplerVars, bufferConfig, dt_summary>>
    /\ UNCHANGED <<init_pc, http_client_, agents, kernels, stop_requested_,
                   last_flush_time_, total_flushes_, total_records_, failed_flushes_,
                   failed_records_, periodic_mutex_, pt, dt_pc, app, buffer, rt_flush,
                   rt_loaded, rt_seen, dispatched, now, flush_log>>

\* lines 265-271: num_headers == 0 throws, else headers == nullptr throws
FullBufferEnter ==
    /\ Alive /\ cb.pc = "entry"
    /\ IF Len(cb.batch) = 0
       THEN failure' = "no_headers" /\ UNCHANGED cb
       ELSE IF cb.headers = "null"
            THEN failure' = "null_headers" /\ UNCHANGED cb
            ELSE cb' = [cb EXCEPT !.pc = "format", !.i = 1] /\ UNCHANGED failure
    /\ UNCHANGED <<samplerVars, bufferConfig, dt_summary>>
    /\ UNCHANGED <<init_pc, http_client_, agents, kernels, stop_requested_,
                   last_flush_time_, total_flushes_, total_records_, failed_flushes_,
                   failed_records_, periodic_mutex_, pt, dt_pc, app, buffer, rt_flush,
                   rt_loaded, rt_seen, dispatched, now, flush_log>>

\* the line lines 286-288 write for one record
FormatLine(record) ==
    [kernel |-> kernels[record.kernel_id], gpu_id |-> agents[record.agent_id],
     start_timestamp |-> record.start_timestamp, end_timestamp |-> record.end_timestamp]

\* a loop body that writes a default where the agent or the kernel is missing
FormatRecordDefaultsMissing ==
    /\ Alive /\ cb.pc = "format" /\ cb.i <= Len(cb.batch)
    /\ LET record == cb.batch[cb.i]
           line == [kernel |-> IF record.kernel_id \in DOMAIN kernels
                               THEN kernels[record.kernel_id] ELSE "",
                    gpu_id |-> IF record.agent_id \in DOMAIN agents
                               THEN agents[record.agent_id] ELSE 0,
                    start_timestamp |-> record.start_timestamp,
                    end_timestamp |-> record.end_timestamp] IN
       IF record.kind # "kernel_dispatch"
       THEN failure' = "unexpected_record" /\ UNCHANGED cb
       ELSE /\ cb' = [cb EXCEPT !.data = Append(@, line), !.i = @ + 1]
            /\ UNCHANGED failure
    /\ UNCHANGED <<samplerVars, bufferConfig, dt_summary>>
    /\ UNCHANGED <<init_pc, http_client_, agents, kernels, stop_requested_,
                   last_flush_time_, total_flushes_, total_records_, failed_flushes_,
                   failed_records_, periodic_mutex_, pt, dt_pc, app, buffer, rt_flush,
                   rt_loaded, rt_seen, dispatched, now, flush_log>>

\* a loop body that looks the agent up with operator[], which inserts a
\* node index of 0 for an agent the map does not hold
FormatRecordInsertsAgent ==
    /\ Alive /\ cb.pc = "format" /\ cb.i <= Len(cb.batch)
    /\ LET record == cb.batch[cb.i] IN
       /\ agents' = IF record.kind = "kernel_dispatch"
                    THEN MapEmplace(agents, record.agent_id, 0) ELSE agents
       /\ IF record.kind # "kernel_dispatch"
          THEN failure' = "unexpected_record" /\ UNCHANGED cb
          ELSE IF record.kernel_id \notin DOMAIN kernels
          THEN failure' = "out_of_range" /\ UNCHANGED cb
          ELSE /\ cb' = [cb EXCEPT
                           !.data = Append(@, [kernel |-> kernels[record.kernel_id],
                                               gpu_id |-> agents'[record.agent_id],
                                               start_timestamp |-> record.start_timestamp,
                                               end_timestamp |-> record.end_timestamp]),
                           !.i = @ + 1]
               /\ UNCHANGED failure
    /\ UNCHANGED <<samplerVars, bufferConfig, dt_summary>>
    /\ UNCHANGED <<init_pc, http_client_, kernels, stop_requested_,
                   last_flush_time_, total_flushes_, total_records_, failed_flushes_,
                   failed_records_, periodic_mutex_, pt, dt_pc, app, buffer, rt_flush,
                   rt_loaded, rt_seen, dispatched, now, flush_log>>

\* a loop body that leaves out a record it cannot format and goes on
FormatRecordSkipsBadRecord ==
    /\ Alive /\ cb.pc = "format" /\ cb.i <= Len(cb.batch)
    /\ LET record == cb.batch[cb.i] IN
       IF record.kind # "kernel_dispatch"
          \/ record.agent_id \notin DOMAIN agents
          \/ record.kernel_id \notin DOMAIN kernels
       THEN cb' = [cb EXCEPT !.i = @ + 1]
       ELSE cb' = [cb EXCEPT !.data = Append(@, FormatLine(record)), !.i = @ + 1]
    /\ UNCHANGED failure
    /\ UNCHANGED <<samplerVars, bufferConfig, dt_summary>>
    /\ UNCHANGED <<init_pc, http_client_, agents, kernels, stop_requested_,
                   last_flush_time_, total_flushes_, total_records_, failed_flushes_,
                   failed_records_, periodic_mutex_, pt, dt_pc, app, buffer, rt_flush,
                   rt_loaded, rt_seen, dispatched, now, flush_log>>

\* lines 279-294 for record cb.i: a record of another category or kind throws,
\* and agents.at / kernels.at throw on a missing key
FormatRecord ==
    /\ Alive /\ cb.pc = "format" /\ cb.i <= Len(cb.batch)
    /\ LET record == cb.batch[cb.i] IN
       IF record.kind # "kernel_dispatch"
       THEN failure' = "unexpected_record" /\ UNCHANGED cb
       ELSE IF record.agent_id \notin DOMAIN agents
               \/ record.kernel_id \notin DOMAIN kernels
       THEN failure' = "out_of_range" /\ UNCHANGED cb
       ELSE /\ cb' = [cb EXCEPT !.data = Append(@, FormatLine(record)), !.i = @ + 1]
            /\ UNCHANGED failure
    /\ UNCHANGED <<samplerVars, bufferConfig, dt_summary>>
    /\ UNCHANGED <<init_pc, http_client_, agents, kernels, stop_requested_,
                   last_flush_time_, total_flushes_, total_records_, failed_flushes_,
                   failed_records_, periodic_mutex_, pt, dt_pc, app, buffer, rt_flush,
                   rt_loaded, rt_seen, dispatched, now, flush_log>>

\* kernels.at(...) while code_object_callback is inside kernels.emplace or
\* kernels.erase on another thread: the container is not synchronized, and
\* besides the outcomes of FormatRecord the lookup can fault
FormatRecordRaces ==
    /\ Alive /\ cb.pc = "format" /\ cb.i <= Len(cb.batch)
    /\ app.pc \in {"emplace", "erase"}
    /\ failure' = "kernels_data_race"
    /\ UNCHANGED <<samplerVars, bufferConfig, dt_summary>>
    /\ UNCHANGED <<init_pc, http_client_, agents, kernels, stop_requested_,
                   last_flush_time_, total_flushes_, total_records_, failed_flushes_,
                   failed_records_, periodic_mutex_, pt, dt_pc, cb, app, buffer, rt_flush,
                   rt_loaded, rt_seen, dispatched, now, flush_log>>

\* a line without the quotes around the kernel name
LineTextUnquoted(line) ==
    ToString(line.gpu_id) \o "," \o line.kernel \o "," \o ToString(line.start_timestamp)
    \o "," \o ToString(line.end_timestamp) \o "\n"

\* the text of one line: fmt::format_to(..., "{},\"{}\",{},{}\n", ...) (line 286)
LineText(line) ==
    ToString(line.gpu_id) \o ",\"" \o line.kernel \o "\"," \o ToString(line.start_timestamp)
    \o "," \o ToString(line.end_timestamp) \o "\n"

RECURSIVE DataText(_)
\* the string data after the lines given were appended to it, in order
DataText(lines) ==
    IF lines = <<>> THEN "" ELSE LineText(Head(lines)) \o DataText(Tail(lines))

\* record_flush_time (lines 415-417)
record_flush_time == last_flush_time_' = now

\* a flush that goes to the Post without recording the time
FlushBeginWithoutTime ==
    /\ Alive /\ cb.pc = "format" /\ cb.i > Len(cb.batch)
    /\ UNCHANGED last_flush_time_
    /\ cb' = [cb EXCEPT !.pc = "post", !.started = now, !.body = DataText(cb.data)]
    /\ UNCHANGED <<samplerVars, bufferConfig, dt_summary>>
    /\ UNCHANGED <<init_pc, http_client_, agents, kernels, stop_requested_,
                   total_flushes_, total_records_, failed_flushes_, failed_records_,
                   periodic_mutex_, pt, dt_pc, app, buffer, rt_flush, rt_loaded, rt_seen,
                   dispatched, now, flush_log, failure>>

\* a flush whose Post is handed off: the callback is reported complete to the
\* runtime while the request is still on its way
FlushBeginDetached ==
    /\ Alive /\ cb.pc = "format" /\ cb.i > Len(cb.batch)
    /\ record_flush_time
    /\ cb' = [cb EXCEPT !.pc = "post", !.started = now, !.body = DataText(cb.data)]
    /\ rt_flush' = "none"
    /\ UNCHANGED <<samplerVars, bufferConfig, dt_summary>>
    /\ UNCHANGED <<init_pc, http_client_, agents, kernels, stop_requested_,
                   total_flushes_, total_records_, failed_flushes_, failed_records_,
                   periodic_mutex_, pt, dt_pc, app, buffer, rt_loaded, rt_seen,
                   dispatched, now, flush_log, failure>>

\* line 297 calls flush; flush (378) records the time, then (379) begins the Post
FlushBegin ==
    /\ Alive /\ cb.pc = "format" /\ cb.i > Len(cb.batch)
    /\ record_flush_time
    /\ cb' = [cb EXCEPT !.pc = "post", !.started = now, !.body = DataText(cb.data)]
    /\ UNCHANGED <<samplerVars, bufferConfig, dt_summary>>
    /\ UNCHANGED <<init_pc, http_client_, agents, kernels, stop_requested_,
                   total_flushes_, total_records_, failed_flushes_, failed_records_,
                   periodic_mutex_, pt, dt_pc, app, buffer, rt_flush, rt_loaded, rt_seen,
                   dispatched, now, flush_log, failure>>

\* http_client_->Post(...) returns and success is computed (lines 380-381)
PostReturn(res) ==
    /\ Alive /\ cb.pc = "post" /\ http_client_ = "live"
    /\ cb' = [cb EXCEPT !.pc = "total_flushes", !.res = res, !.failed = ~PostSucceeded(res)]
    /\ flush_log' = Append(flush_log, [records |-> Len(cb.batch), failed |-> ~PostSucceeded(res),
                                    by |-> rt_flush])
    /\ UNCHANGED <<samplerVars, bufferConfig, dt_summary>>
    /\ UNCHANGED <<init_pc, http_client_, agents, kernels, stop_requested_,
                   last_flush_time_, total_flushes_, total_records_, failed_flushes_,
                   failed_records_, periodic_mutex_, pt, dt_pc, app, buffer, rt_flush,
                   rt_loaded, rt_seen, dispatched, now, failure>>

\* the Post runs on a client the destructor has destroyed meanwhile
PostOnReleasedClient ==
    /\ Alive /\ cb.pc = "post" /\ http_client_ = "released"
    /\ failure' = "use_after_free"
    /\ UNCHANGED <<samplerVars, bufferConfig, dt_summary>>
    /\ UNCHANGED <<init_pc, http_client_, agents, kernels, stop_requested_,
                   last_flush_time_, total_flushes_, total_records_, failed_flushes_,
                   failed_records_, periodic_mutex_, pt, dt_pc, cb, app, buffer, rt_flush,
                   rt_loaded, rt_seen, dispatched, now, flush_log>>

\* the program point after each fetch_add of record_flush_stats
StatsNextPc(pc, failed) ==
    CASE pc = "total_flushes" -> "total_records"
      [] pc = "total_records" -> IF failed THEN "failed_flushes" ELSE "return"
      [] pc = "failed_flushes" -> "failed_records"
      [] pc = "failed_records" -> "return"

StatsPcs == {"total_flushes", "total_records", "failed_flushes", "failed_records"}

\* a record_flush_stats that counts one record per flush, whatever the batch
record_flush_stats_one_per_flush ==
    /\ Alive /\ cb.pc \in StatsPcs
    /\ total_flushes_' = IF cb.pc = "total_flushes" THEN total_flushes_ + 1 ELSE total_flushes_
    /\ total_records_' = IF cb.pc = "total_records" THEN total_records_ + 1
                         ELSE total_records_
    /\ failed_flushes_' = IF cb.pc = "failed_flushes" THEN failed_flushes_ + 1
                          ELSE failed_flushes_
    /\ failed_records_' = IF cb.pc = "failed_records" THEN failed_records_ + Len(cb.batch)
                          ELSE failed_records_
    /\ cb' = [cb EXCEPT !.pc = StatsNextPc(cb.pc, cb.failed)]
    /\ UNCHANGED <<samplerVars, bufferConfig, dt_summary>>
    /\ UNCHANGED <<init_pc, http_client_, agents, kernels, stop_requested_,
                   last_flush_time_, periodic_mutex_, pt, dt_pc, app, buffer, rt_flush,
                   rt_loaded, rt_seen, dispatched, now, flush_log, failure>>

\* record_flush_stats (lines 419-426): one atomic fetch_add per step
record_flush_stats ==
    /\ Alive /\ cb.pc \in StatsPcs
    /\ total_flushes_' = IF cb.pc = "total_flushes" THEN total_flushes_ + 1 ELSE total_flushes_
    /\ total_records_' = IF cb.pc = "total_records" THEN total_records_ + Len(cb.batch)
                         ELSE total_records_
    /\ failed_flushes_' = IF cb.pc = "failed_flushes" THEN failed_flushes_ + 1
                          ELSE failed_flushes_
    /\ failed_records_' = IF cb.pc = "failed_records" THEN failed_records_ + Len(cb.batch)
                          ELSE failed_records_
    /\ cb' = [cb EXCEPT !.pc = StatsNextPc(cb.pc, cb.failed)]
    /\ UNCHANGED <<samplerVars, bufferConfig, dt_summary>>
    /\ UNCHANGED <<init_pc, http_client_, agents, kernels, stop_requested_,
                   last_flush_time_, periodic_mutex_, pt, dt_pc, app, buffer, rt_flush,
                   rt_loaded, rt_seen, dispatched, now, flush_log, failure>>

\* a return that puts the records of a failed flush back for the next one
FullBufferReturnKeepsFailed ==
    /\ Alive /\ cb.pc = "return"
    /\ cb' = IdleCallback
    /\ rt_flush' = "none"
    /\ buffer' = IF cb.failed THEN cb.batch \o buffer ELSE buffer
    /\ UNCHANGED <<samplerVars, bufferConfig, dt_summary>>
    /\ UNCHANGED <<init_pc, http_client_, agents, kernels, stop_requested_,
                   last_flush_time_, total_flushes_, total_records_, failed_flushes_,
                   failed_records_, periodic_mutex_, pt, dt_pc, app, rt_loaded,
                   rt_seen, dispatched, now, flush_log, failure>>

\* full_buffer_callback returns: the runtime's flush is complete
FullBufferReturn ==
    /\ Alive /\ cb.pc = "return"
    /\ cb' = IdleCallback
    /\ rt_flush' = "none"
    /\ UNCHANGED <<samplerVars, bufferConfig, dt_summary>>
    /\ UNCHANGED <<init_pc, http_client_, agents, kernels, stop_requested_,
                   last_flush_time_, total_flushes_, total_records_, failed_flushes_,
                   failed_records_, periodic_mutex_, pt, dt_pc, app, buffer, rt_loaded,
                   rt_seen, dispatched, now, flush_log, failure>>

(***************************************************************************)
(* KernelTracer::periodic_flush (lines 385-413), on the periodic thread    *)
(***************************************************************************)
\* lines 387-391: the lock is taken and wait_for tests its predicate; with the
\* predicate false the thread waits, the mutex released, until interval later
PeriodicLock ==
    /\ Alive /\ pt.pc = "lock" /\ periodic_mutex_ = "free"
    /\ pt' = IF stop_requested_ THEN [pt EXCEPT !.pc = "done"]
             ELSE [pc |-> "waiting", deadline |-> now + FlushInterval, notified |-> FALSE,
                   status |-> ""]
    /\ UNCHANGED <<samplerVars, bufferConfig, dt_summary>>
    /\ UNCHANGED <<init_pc, http_client_, agents, kernels, stop_requested_,
                   last_flush_time_, total_flushes_, total_records_, failed_flushes_,
                   failed_records_, periodic_mutex_, dt_pc, cb, app, buffer, rt_flush,
                   rt_loaded, rt_seen, dispatched, now, flush_log, failure>>

\* a wake that treats a timeout as a timeout whatever stop_requested_ says
PeriodicWakeIgnoresStop ==
    /\ Alive /\ pt.pc = "waiting" /\ periodic_mutex_ = "free"
    /\ pt.notified \/ now >= pt.deadline
    /\ IF stop_requested_ /\ now < pt.deadline
       THEN pt' = [pt EXCEPT !.pc = "done"] /\ UNCHANGED periodic_mutex_
       ELSE IF now >= pt.deadline
            THEN pt' = [pt EXCEPT !.pc = "check"] /\ periodic_mutex_' = "periodic"
            ELSE pt' = [pt EXCEPT !.notified = FALSE] /\ UNCHANGED periodic_mutex_
    /\ UNCHANGED <<samplerVars, bufferConfig, dt_summary>>
    /\ UNCHANGED <<init_pc, http_client_, agents, kernels, stop_requested_,
                   last_flush_time_, total_flushes_, total_records_, failed_flushes_,
                   failed_records_, dt_pc, cb, app, buffer, rt_flush, rt_loaded, rt_seen,
                   dispatched, now, flush_log, failure>>

\* wait_for wakes on a notification or at its deadline, retakes the mutex and
\* tests the predicate again (lines 390-394)
PeriodicWake ==
    /\ Alive /\ pt.pc = "waiting" /\ periodic_mutex_ = "free"
    /\ pt.notified \/ now >= pt.deadline
    /\ IF stop_requested_
       THEN pt' = [pt EXCEPT !.pc = "done"] /\ UNCHANGED periodic_mutex_
       ELSE IF now >= pt.deadline
            THEN pt' = [pt EXCEPT !.pc = "check"] /\ periodic_mutex_' = "periodic"
            ELSE pt' = [pt EXCEPT !.notified = FALSE] /\ UNCHANGED periodic_mutex_
    /\ UNCHANGED <<samplerVars, bufferConfig, dt_summary>>
    /\ UNCHANGED <<init_pc, http_client_, agents, kernels, stop_requested_,
                   last_flush_time_, total_flushes_, total_records_, failed_flushes_,
                   failed_records_, dt_pc, cb, app, buffer, rt_flush, rt_loaded, rt_seen,
                   dispatched, now, flush_log, failure>>

\* a check that lets every timed-out round through to the flush
PeriodicCheckAlwaysFlushes ==
    /\ Alive /\ pt.pc = "check"
    /\ pt' = [pt EXCEPT !.pc = "flush_call"] /\ UNCHANGED periodic_mutex_
    /\ UNCHANGED <<samplerVars, bufferConfig, dt_summary>>
    /\ UNCHANGED <<init_pc, http_client_, agents, kernels, stop_requested_,
                   last_flush_time_, total_flushes_, total_records_, failed_flushes_,
                   failed_records_, dt_pc, cb, app, buffer, rt_flush, rt_loaded, rt_seen,
                   dispatched, now, flush_log, failure>>

\* lines 396-401: a flush recorded less than one interval ago ends the round
PeriodicCheck ==
    /\ Alive /\ pt.pc = "check"
    /\ IF (now - last_flush_time_) < FlushInterval
       THEN pt' = [pt EXCEPT !.pc = "lock"] /\ periodic_mutex_' = "free"
       ELSE pt' = [pt EXCEPT !.pc = "flush_call"] /\ UNCHANGED periodic_mutex_
    /\ UNCHANGED <<samplerVars, bufferConfig, dt_summary>>
    /\ UNCHANGED <<init_pc, http_client_, agents, kernels, stop_requested_,
                   last_flush_time_, total_flushes_, total_records_, failed_flushes_,
                   failed_records_, dt_pc, cb, app, buffer, rt_flush, rt_loaded, rt_seen,
                   dispatched, now, flush_log, failure>>

\* a periodic thread that lets an error status of the flush escape as an
\* exception, the way ROCPROFILER_CALL does
PeriodicFlushThrowsOnError(answer) == answer \notin {"success", "busy"}

\* lines 404-411: no answer of rocprofiler_flush_buffer ends the thread
PeriodicFlushThrows(answer) == FALSE

\* a periodic flush call that returns before the callback has run
PeriodicFlushCallNoWait(answer) ==
    /\ Alive /\ pt.pc = "flush_call"
    /\ IF PeriodicFlushThrows(answer)
       THEN /\ failure' = "periodic_flush_" \o answer
            /\ UNCHANGED <<pt, periodic_mutex_, cb, buffer, rt_flush>>
       ELSE /\ UNCHANGED failure
            /\ IF answer # "success" \/ buffer = <<>>
               THEN /\ pt' = [pt EXCEPT !.pc = "lock"]
                    /\ periodic_mutex_' = "free"
                    /\ UNCHANGED <<cb, buffer, rt_flush>>
               ELSE /\ pt' = [pt EXCEPT !.pc = "lock"]
                    /\ periodic_mutex_' = "free"
                    /\ DeliverBuffer("periodic")
    /\ UNCHANGED <<samplerVars, bufferConfig, dt_summary>>
    /\ UNCHANGED <<init_pc, http_client_, agents, kernels, stop_requested_,
                   last_flush_time_, total_flushes_, total_records_, failed_flushes_,
                   failed_records_, dt_pc, app, rt_loaded, rt_seen, dispatched, now,
                   flush_log>>

\* a periodic flush call that records the flush time itself
PeriodicFlushCallRecordsTime(answer) ==
    /\ Alive /\ pt.pc = "flush_call"
    /\ record_flush_time
    /\ UNCHANGED failure
    /\ pt' = [pt EXCEPT !.pc = "flush_wait", !.status = answer]
    /\ UNCHANGED periodic_mutex_
    /\ IF answer # "success" \/ buffer = <<>>
       THEN UNCHANGED <<cb, buffer, rt_flush>>
       ELSE DeliverBuffer("periodic")
    /\ UNCHANGED <<samplerVars, bufferConfig, dt_summary>>
    /\ UNCHANGED <<init_pc, http_client_, agents, kernels, stop_requested_,
                   total_flushes_, total_records_, failed_flushes_,
                   failed_records_, dt_pc, app, rt_loaded, rt_seen, dispatched, now,
                   flush_log>>

\* line 404: rocprofiler_flush_buffer is called with the mutex held, and its
\* status is kept in flush_status
PeriodicFlushCall(answer) ==
    /\ Alive /\ pt.pc = "flush_call"
    /\ IF PeriodicFlushThrows(answer)
       THEN /\ failure' = "periodic_flush_" \o answer
            /\ UNCHANGED <<pt, periodic_mutex_, cb, buffer, rt_flush>>
       ELSE /\ UNCHANGED failure
            /\ pt' = [pt EXCEPT !.pc = "flush_wait", !.status = answer]
            /\ UNCHANGED periodic_mutex_
            /\ IF answer # "success" \/ buffer = <<>>
               THEN UNCHANGED <<cb, buffer, rt_flush>>
               ELSE DeliverBuffer("periodic")
    /\ UNCHANGED <<samplerVars, bufferConfig, dt_summary>>
    /\ UNCHANGED <<init_pc, http_client_, agents, kernels, stop_requested_,
                   last_flush_time_, total_flushes_, total_records_, failed_flushes_,
                   failed_records_, dt_pc, app, rt_loaded, rt_seen, dispatched, now,
                   flush_log>>

\* rocprofiler_flush_buffer has returned; lines 407-411 print a warning for a
\* status other than success and busy; the round ends and the lock goes
PeriodicFlushed ==
    /\ Alive /\ pt.pc = "flush_wait" /\ rt_flush # "periodic"
    /\ pt' = [pt EXCEPT !.pc = "lock", !.status = ""]
    /\ periodic_mutex_' = "free"
    /\ UNCHANGED <<samplerVars, bufferConfig, dt_summary>>
    /\ UNCHANGED <<init_pc, http_client_, agents, kernels, stop_requested_,
                   last_flush_time_, total_flushes_, total_records_, failed_flushes_,
                   failed_records_, dt_pc, cb, app, buffer, rt_flush, rt_loaded, rt_seen,
                   dispatched, now, flush_log, failure>>

(***************************************************************************)
(* KernelTracer::~KernelTracer (lines 357-375), called by tool_fini        *)
(***************************************************************************)
\* lines 358-361: stop_requested_ is set under the mutex
DestructorStop ==
    /\ Alive /\ dt_pc = "none" /\ init_pc \in {"running"} \cup InitFailed
    /\ periodic_mutex_ = "free"
    /\ stop_requested_' = TRUE
    /\ dt_pc' = "notify"
    /\ UNCHANGED <<samplerVars, bufferConfig, dt_summary>>
    /\ UNCHANGED <<init_pc, http_client_, agents, kernels, last_flush_time_,
                   total_flushes_, total_records_, failed_flushes_, failed_records_,
                   periodic_mutex_, pt, cb, app, buffer, rt_flush, rt_loaded, rt_seen,
                   dispatched, now, flush_log, failure>>

\* a destructor that sets the flag and never notifies
DestructorNotifyForgotten ==
    /\ Alive /\ dt_pc = "notify"
    /\ dt_pc' = "join"
    /\ UNCHANGED <<samplerVars, bufferConfig, dt_summary>>
    /\ UNCHANGED <<init_pc, http_client_, agents, kernels, stop_requested_,
                   last_flush_time_, total_flushes_, total_records_, failed_flushes_,
                   failed_records_, periodic_mutex_, pt, cb, app, buffer, rt_flush,
                   rt_loaded, rt_seen, dispatched, now, flush_log, failure>>

\* line 362: notify_one reaches the periodic thread if it is waiting
DestructorNotify ==
    /\ Alive /\ dt_pc = "notify"
    /\ pt' = IF pt.pc = "waiting" THEN [pt EXCEPT !.notified = TRUE] ELSE pt
    /\ dt_pc' = "join"
    /\ UNCHANGED <<samplerVars, bufferConfig, dt_summary>>
    /\ UNCHANGED <<init_pc, http_client_, agents, kernels, stop_requested_,
                   last_flush_time_, total_flushes_, total_records_, failed_flushes_,
                   failed_records_, periodic_mutex_, cb, app, buffer, rt_flush, rt_loaded,
                   rt_seen, dispatched, now, flush_log, failure>>

\* a destructor that goes on without waiting for the periodic thread
DestructorDetach ==
    /\ Alive /\ dt_pc = "join"
    /\ dt_pc' = IF pt.pc = "none" THEN "release" ELSE "summary"
    /\ UNCHANGED <<samplerVars, bufferConfig, dt_summary>>
    /\ UNCHANGED <<init_pc, http_client_, agents, kernels, stop_requested_,
                   last_flush_time_, total_flushes_, total_records_, failed_flushes_,
                   failed_records_, periodic_mutex_, pt, cb, app, buffer, rt_flush,
                   rt_loaded, rt_seen, dispatched, now, flush_log, failure>>

\* lines 364-365: a joinable periodic thread is joined; with no thread
\* started the destructor goes on to the release
DestructorJoin ==
    /\ Alive /\ dt_pc = "join"
    /\ pt.pc \in {"none", "done"}
    /\ dt_pc' = IF pt.pc = "none" THEN "release" ELSE "summary"
    /\ UNCHANGED <<samplerVars, bufferConfig, dt_summary>>
    /\ UNCHANGED <<init_pc, http_client_, agents, kernels, stop_requested_,
                   last_flush_time_, total_flushes_, total_records_, failed_flushes_,
                   failed_records_, periodic_mutex_, pt, cb, app, buffer, rt_flush,
                   rt_loaded, rt_seen, dispatched, now, flush_log, failure>>

\* lines 367-368: each difference loads its two atomic operands one after the
\* other, in the order the build chose; this step loads the first one
DestructorSummaryLoad(operand) ==
    /\ Alive /\ dt_pc = "summary" /\ dt_summary.pc \in {"records", "flushes"}
    /\ dt_summary' =
           [dt_summary EXCEPT
               !.pc = IF @ = "records" THEN "records_subtract" ELSE "flushes_subtract",
               !.operand = operand,
               !.value = IF dt_summary.pc = "records"
                         THEN (IF operand = "total" THEN total_records_ ELSE failed_records_)
                         ELSE (IF operand = "total" THEN total_flushes_ ELSE failed_flushes_)]
    /\ UNCHANGED <<samplerVars, bufferConfig>>
    /\ UNCHANGED <<init_pc, http_client_, agents, kernels, stop_requested_,
                   last_flush_time_, total_flushes_, total_records_, failed_flushes_,
                   failed_records_, periodic_mutex_, pt, dt_pc, cb, app, buffer, rt_flush,
                   rt_loaded, rt_seen, dispatched, now, flush_log, failure>>

\* ... and this one loads the second and subtracts; the difference is kept as
\* an integer: a negative one is the uint64_t value 2^64 + difference
DestructorSummarySubtract ==
    /\ Alive /\ dt_pc = "summary"
    /\ dt_summary.pc \in {"records_subtract", "flushes_subtract"}
    /\ LET records == dt_summary.pc = "records_subtract"
           total == IF dt_summary.operand = "total" THEN dt_summary.value
                    ELSE IF records THEN total_records_ ELSE total_flushes_
           failed == IF dt_summary.operand = "failed" THEN dt_summary.value
                     ELSE IF records THEN failed_records_ ELSE failed_flushes_
       IN  dt_summary' =
               [dt_summary EXCEPT
                   !.pc = IF records THEN "flushes" ELSE "print",
                   !.operand = "", !.value = 0,
                   !.successful_records = IF records THEN total - failed ELSE @,
                   !.successful_flushes = IF records THEN @ ELSE total - failed]
    /\ UNCHANGED <<samplerVars, bufferConfig>>
    /\ UNCHANGED <<init_pc, http_client_, agents, kernels, stop_requested_,
                   last_flush_time_, total_flushes_, total_records_, failed_flushes_,
                   failed_records_, periodic_mutex_, pt, dt_pc, cb, app, buffer, rt_flush,
                   rt_loaded, rt_seen, dispatched, now, flush_log, failure>>

\* lines 369-371: the summary is printed
DestructorSummary ==
    /\ Alive /\ dt_pc = "summary" /\ dt_summary.pc = "print"
    /\ dt_pc' = "release"
    /\ UNCHANGED <<samplerVars, bufferConfig, dt_summary>>
    /\ UNCHANGED <<init_pc, http_client_, agents, kernels, stop_requested_,
                   last_flush_time_, total_flushes_, total_records_, failed_flushes_,
                   failed_records_, periodic_mutex_, pt, cb, app, buffer, rt_flush,
                   rt_loaded, rt_seen, dispatched, now, flush_log, failure>>

\* line 374: http_client_.reset()
DestructorRelease ==
    /\ Alive /\ dt_pc = "release"
    /\ http_client_' = "released"
    /\ dt_pc' = "done"
    /\ UNCHANGED <<samplerVars, bufferConfig, dt_summary>>
    /\ UNCHANGED <<init_pc, agents, kernels, stop_requested_, last_flush_time_,
                   total_flushes_, total_records_, failed_flushes_, failed_records_,
                   periodic_mutex_, pt, cb, app, buffer, rt_flush, rt_loaded, rt_seen,
                   dispatched, now, flush_log, failure>>

(***************************************************************************)
(* The sampler's specification: one caller thread issues the calls.        *)
(***************************************************************************)
\* the state the DeviceSampler constructor leaves (lines 159-173)
SamplerConstructed ==
    /\ cached_profiles_ = EmptyMap
    /\ profile_sizes_ = EmptyMap
    /\ profile_counter_ids_ = EmptyMap
    /\ profile_ = 0
    /\ records_ = <<>>
    /\ ctx_active = FALSE
    /\ resolution_calls = 0
    /\ create_calls = 0
    /\ rt_handles = EmptyMap
    /\ rt_profile = 0
    /\ last_call = [op |-> "new", arg |-> <<>>, status |-> "ok", offending |-> "",
                    result |-> <<>>, delivered |-> <<>>]
    /\ active_request = NoRequest
    /\ started_ok = {}
    /\ last_started = NoRequest
    /\ rejected = {}

SamplerInit == SamplerConstructed /\ TracerConstructed

CallStart ==
    /\ \E counters \in Requests, rt \in RuntimeAnswers : start(counters, rt)
    /\ UNCHANGED tracerVars

CallStop ==
    /\ \E rt \in {"ok", "context_fails"} : stop(rt)
    /\ UNCHANGED tracerVars

CallSample ==
    /\ \E delivered \in RuntimeSamples : sample(delivered)
    /\ UNCHANGED tracerVars

SamplerNext == CallStart \/ CallStop \/ CallSample

SamplerSpec == SamplerInit /\ [][SamplerNext]_vars

(***************************************************************************)
(* The sampler's specification with its callback: between the caller's     *)
(* calls the runtime asks for the profile whenever it chooses.             *)
(***************************************************************************)
ProfileInit == SamplerConstructed /\ TracerConstructed

RuntimeAsksProfile ==
    /\ AskProfile
    /\ UNCHANGED tracerVars

\* start() on a runtime whose directory and profile creation answer; the
\* context start, in which the runtime asks for the profile, can still fail
CallStartAnswered ==
    /\ \E counters \in Requests, rt \in {"ok", "context_fails"} : start(counters, rt)
    /\ UNCHANGED tracerVars

ProfileNext == CallStartAnswered \/ CallStop \/ CallSample \/ RuntimeAsksProfile

ProfileSpec == ProfileInit /\ [][ProfileNext]_vars

(***************************************************************************)
(* The exporter's initialization under every configured buffer capacity.   *)
(***************************************************************************)
\* the capacities OMNISTAT_TRACE_BUFFER_SIZE configures, of at least one byte
Capacities == 1..MaxCapacity

CapacityInit ==
    /\ SamplerConstructed
    /\ \E capacity \in Capacities : TracerConstructedWith(capacity)

CapacityNext ==
    \/ \E rt \in InitAnswers : InitializeConfigure(rt)
    \/ InitializeStartThread

CapacitySpec == CapacityInit /\ [][CapacityNext]_vars

(***************************************************************************)
(* The exporter's specification: the application thread, the buffer's      *)
(* callback thread, the periodic thread and the finalizing thread          *)
(* interleave step by step.  The notifications are those initialize        *)
(* subscribes to (lines 318-324): kernel-symbol loads and unloads.         *)
(***************************************************************************)
TracerInit == SamplerConstructed /\ TracerConstructed

TracerNext ==
    \/ \E rt \in InitAnswers : InitializeConfigure(rt)
    \/ InitializeStartThread
    \/ \E symbol \in FirstSymbols : KernelLoadBegin(symbol[1], symbol[2])
    \/ KernelLoadEnd
    \/ \E k \in DOMAIN rt_loaded, answer \in FlushAnswers : KernelUnloadBegin(k, answer)
    \/ KernelUnloadFlushed
    \/ KernelUnloadErase
    \/ \E d \in Dispatches : RuntimeDispatch(d[1], d[2])
    \/ RuntimeWatermarkFlush
    \/ Tick
    \/ FullBufferEnter
    \/ FormatRecord
    \/ FormatRecordRaces
    \/ FlushBegin
    \/ \E res \in PostResults : PostReturn(res)
    \/ PostOnReleasedClient
    \/ record_flush_stats
    \/ FullBufferReturn
    \/ PeriodicLock
    \/ PeriodicWake
    \/ PeriodicCheck
    \/ \E answer \in FlushAnswers : PeriodicFlushCall(answer)
    \/ PeriodicFlushed
    \/ DestructorStop
    \/ DestructorNotify
    \/ DestructorJoin
    \/ \E operand \in {"total", "failed"} : DestructorSummaryLoad(operand)
    \/ DestructorSummarySubtract
    \/ DestructorSummary
    \/ DestructorRelease

TracerSpec == TracerInit /\ [][TracerNext]_vars

(***************************************************************************)
(* The notifications' specification: the exporter while it runs (the tool  *)
(* is not finalized), with every notification code_object_callback         *)
(* handles, code-object unloads included, and with kernel ids that are     *)
(* unloaded and loaded again under another name.                           *)
(***************************************************************************)
RegistryInit == SamplerConstructed /\ TracerConstructed

RegistryNext ==
    \/ \E rt \in InitAnswers : InitializeConfigure(rt)
    \/ InitializeStartThread
    \/ \E symbol \in KernelSymbols : KernelLoadBegin(symbol[1], symbol[2])
    \/ KernelLoadEnd
    \/ \E k \in DOMAIN rt_loaded, answer \in FlushAnswers : KernelUnloadBegin(k, answer)
    \/ KernelUnloadFlushed
    \/ KernelUnloadErase
    \/ \E answer \in FlushAnswers : CodeObjectUnload(answer)
    \/ CodeObjectFlushed
    \/ \E d \in Dispatches : RuntimeDispatch(d[1], d[2])
    \/ RuntimeWatermarkFlush
    \/ Tick
    \/ FullBufferEnter
    \/ FormatRecord
    \/ FormatRecordRaces
    \/ FlushBegin
    \/ \E res \in PostResults : PostReturn(res)
    \/ record_flush_stats
    \/ FullBufferReturn
    \/ PeriodicLock
    \/ PeriodicWake
    \/ PeriodicCheck
    \/ \E answer \in FlushAnswers : PeriodicFlushCall(answer)
    \/ PeriodicFlushed

RegistrySpec == RegistryInit /\ [][RegistryNext]_vars

(***************************************************************************)
(* The shutdown's specification: the exporter from initialize to the end   *)
(* of ~KernelTracer, with every thread that can take a step taking one     *)
(* eventually.  Time is under no such obligation: what is bound to happen  *)
(* here happens without the clock advancing.                               *)
(***************************************************************************)
ShutdownInit == SamplerConstructed /\ TracerConstructed

\* the steps of periodic_thread_
PeriodicThread ==
    \/ PeriodicLock
    \/ PeriodicWake
    \/ PeriodicCheck
    \/ \E answer \in FlushAnswers : PeriodicFlushCall(answer)
    \/ PeriodicFlushed

\* the steps of the buffer's callback thread
CallbackThread ==
    \/ FullBufferEnter
    \/ FormatRecord
    \/ FlushBegin
    \/ \E res \in PostResults : PostReturn(res)
    \/ record_flush_stats
    \/ FullBufferReturn

\* the steps of the thread that runs tool_fini
FinalizingThread ==
    \/ DestructorStop
    \/ DestructorNotify
    \/ DestructorJoin
    \/ \E operand \in {"total", "failed"} : DestructorSummaryLoad(operand)
    \/ DestructorSummarySubtract
    \/ DestructorSummary
    \/ DestructorRelease

ShutdownNext ==
    \/ \E rt \in InitAnswers : InitializeConfigure(rt)
    \/ InitializeStartThread
    \/ \E symbol \in FirstSymbols : KernelLoadBegin(symbol[1], symbol[2])
    \/ KernelLoadEnd
    \/ \E d \in Dispatches : RuntimeDispatch(d[1], d[2])
    \/ RuntimeWatermarkFlush
    \/ Tick
    \/ FormatRecordRaces
    \/ PostOnReleasedClient
    \/ PeriodicThread
    \/ CallbackThread
    \/ FinalizingThread

ShutdownFairness ==
    /\ WF_vars(PeriodicThread)
    /\ WF_vars(CallbackThread)
    /\ WF_vars(DestructorNotify \/ DestructorJoin)

ShutdownSpec == ShutdownInit /\ [][ShutdownNext]_vars /\ ShutdownFairness

(***************************************************************************)
(* The callback's specification: full_buffer_callback as a function of     *)
(* what it is handed.  Its caller hands it any batch: empty, with a null   *)
(* array, or with records of agents and kernels the exporter has not seen. *)
(***************************************************************************)
CallbackInit == SamplerConstructed /\ TracerConstructed

CallbackNext ==
    \/ \E rt \in InitAnswers : InitializeConfigure(rt)
    \/ InitializeStartThread
    \/ \E symbol \in FirstSymbols : KernelLoadBegin(symbol[1], symbol[2])
    \/ KernelLoadEnd
    \/ \E batch \in HandedBatches, headers \in {"array", "null"} :
          RuntimeInvokesCallback(batch, headers)
    \/ Tick
    \/ FullBufferEnter
    \/ FormatRecord
    \/ FormatRecordRaces
    \/ FlushBegin
    \/ \E res \in PostResults : PostReturn(res)
    \/ record_flush_stats
    \/ FullBufferReturn

CallbackSpec == CallbackInit /\ [][CallbackNext]_vars

(***************************************************************************)
(* Claims about the Counter Sampler (checked under SamplerSpec)            *)
(***************************************************************************)
IsSample == last_call.op = "sample"

IsStart == last_call.op = "start"

Supported(counters) ==
    \A i \in DOMAIN counters : counters[i] \in DOMAIN get_supported_counters

\* the counter ids the directory gives for a fully supported request
ResolvedIds(counters) ==
    [i \in DOMAIN counters |-> get_supported_counters[counters[i]]]

IsReordering(a, b) ==
    /\ a # b
    /\ \A x \in CounterNames :
          Cardinality({i \in DOMAIN a : a[i] = x}) =
          Cardinality({i \in DOMAIN b : b[i] = x})

\* C4: every sample() result is computed only from the raw records the
\* runtime produced in that call: each returned sum is the sum, over the
\* records delivered in this call, of the values carrying that counter id,
\* whatever was sampled before and however few records this call delivered.
C4_SampleUsesOnlyThisCallsRecords ==
    IsSample =>
        LET counter_ids == profile_counter_ids_[profile_]
        IN  last_call.result =
                [i \in 1..Len(counter_ids) |->
                    AggregateOf(last_call.delivered, counter_ids[i])]

\* C5: while the request C of a successful start() is in effect, sample()
\* returns exactly Len(C) values, the i-th being the sum of the values of the
\* raw records of that sample whose counter id is the one the directory gives
\* for C[i], and zero when no record of that sample carries it.
C5_SampleSumsPerRequestedCounter ==
    (IsSample /\ active_request # NoRequest) =>
        /\ Len(last_call.result) = Len(active_request)
        /\ \A i \in 1..Len(active_request) :
              last_call.result[i] =
                  AggregateOf(last_call.delivered,
                              get_supported_counters[active_request[i]])

\* C6: two requests with the same names in a different order, both started
\* on the sampler, are two cache entries with two profile handles, each with
\* its own ordered counter-id list; and a sample() taken while request A is
\* in effect has at position i the sum aggregated for the counter of A[i].
C6_ReorderedRequestsAreDistinctEntries ==
    /\ \A a \in started_ok, b \in started_ok :
          IsReordering(a, b) =>
              /\ a \in DOMAIN cached_profiles_
              /\ b \in DOMAIN cached_profiles_
              /\ cached_profiles_[a] # cached_profiles_[b]
              /\ profile_counter_ids_[cached_profiles_[a]] = ResolvedIds(a)
              /\ profile_counter_ids_[cached_profiles_[b]] = ResolvedIds(b)
    /\ (IsSample /\ active_request # NoRequest) =>
          last_call.result =
              [i \in 1..Len(active_request) |->
                  AggregateOf(records_, get_supported_counters[active_request[i]])]

\* both orders were started, and a sample under the second order returned two
\* different sums, second order first
C6_Witness ==
    /\ {<<"GRBM_COUNT", "SQ_WAVES">>, <<"SQ_WAVES", "GRBM_COUNT">>} \subseteq started_ok
    /\ IsSample
    /\ active_request = <<"SQ_WAVES", "GRBM_COUNT">>
    /\ Len(last_call.delivered) = 3
    /\ last_call.result = <<2 * last_call.delivered[1].counter_value,
                            last_call.delivered[1].counter_value>>

\* C7: a start(C) of a request C that was started successfully before makes
\* no directory enumeration and creates no profile: it leaves the three cache
\* tables alone, activates the stored handle and sizes the buffer to the
\* stored size.
C7_CachedStartSkipsResolution ==
    [][ (last_call'.op = "start" /\ last_call'.arg \in started_ok) =>
            /\ resolution_calls' = resolution_calls
            /\ create_calls' = create_calls
            /\ UNCHANGED <<cached_profiles_, profile_sizes_, profile_counter_ids_>>
            /\ last_call'.arg \in DOMAIN cached_profiles_
            /\ profile_' = cached_profiles_[last_call'.arg]
            /\ Len(records_') = profile_sizes_[cached_profiles_[last_call'.arg]]
      ]_vars

\* a start() returned after a sample had delivered records, and the sampler
\* has enumerated the directory once in its life: that start() was a hit
C7_Witness ==
    /\ IsStart
    /\ last_call.status = "ok"
    /\ resolution_calls = 1
    /\ create_calls = 1
    /\ \E i \in DOMAIN records_ : records_[i].counter_value > 0

\* C8: a start(C) with a name the directory does not hold fails, with the
\* unsupported-counter error naming the first such name whenever the directory
\* could be enumerated, and leaves the three cache tables as they were; and a
\* start(D) of a fully supported D is never refused as unsupported, whatever
\* was refused before, and succeeds whenever the runtime accepts its calls,
\* with D cached and active.
C8_UnsupportedStartCachesNothing ==
    [][ /\ (last_call'.op = "start" /\ ~Supported(last_call'.arg)) =>
              /\ last_call'.status \in {"unsupported", "directory_error"}
              /\ last_call'.status = "unsupported" =>
                    /\ last_call'.offending \notin DOMAIN get_supported_counters
                    /\ \E i \in DOMAIN last_call'.arg :
                          /\ last_call'.arg[i] = last_call'.offending
                          /\ \A j \in 1..(i - 1) :
                                last_call'.arg[j] \in DOMAIN get_supported_counters
              /\ UNCHANGED <<cached_profiles_, profile_sizes_, profile_counter_ids_>>
        /\ (last_call'.op = "start" /\ Supported(last_call'.arg)) =>
              /\ last_call'.status \in {"ok", "directory_error", "create_error",
                                         "context_error"}
              /\ last_call'.status = "ok" =>
                    /\ last_call'.arg \in DOMAIN cached_profiles_'
                    /\ profile_' = cached_profiles_'[last_call'.arg]
                    /\ active_request' = last_call'.arg
                    /\ ctx_active'
      ]_vars

\* a request was refused as unsupported before, and the start() that has
\* just returned succeeded, with one profile created in two enumerations
C8_Witness ==
    /\ rejected # {}
    /\ IsStart
    /\ last_call.status = "ok"
    /\ resolution_calls = 2
    /\ create_calls = 1
    /\ Cardinality(DOMAIN cached_profiles_) = 1

\* C9: a sample() on a sampler on which no start() has succeeded does not
\* return a normal result to the caller.
C9_SampleBeforeStartIsRefused ==
    (IsSample /\ started_ok = {}) => last_call.status # "ok"

(***************************************************************************)
(* Claims about the Trace Buffer Exporter (checked under TracerSpec)       *)
(***************************************************************************)
\* C1: no flush uses the network client after the destructor has released
\* it: the callback thread is never inside the Post of a flush while
\* http_client_ is released.
C1_NoPostAfterClientRelease == ~(cb.pc = "post" /\ http_client_ = "released")

\* C2: an insert into or erase from the kernel registry by the application
\* thread never executes while the callback thread is reading the registry
\* to format a batch.
C2_RegistryMutationExcludesRead ==
    ~(app.pc \in {"emplace", "erase"} /\ cb.pc = "format" /\ cb.i <= Len(cb.batch))

\* C3: a 'buffer busy' answer of rocprofiler_flush_buffer raises no failure
\* on any of the paths that call it (periodic thread, code-object unload,
\* kernel-symbol unload).
C3_BusyIsNeverFatal ==
    failure \notin {"periodic_flush_busy", "object_flush_busy", "unload_flush_busy"}

RECURSIVE LogRecords(_, _)
\* the records of the flushes of log, of all of them or of the failed ones
LogRecords(log, failed_only) ==
    IF log = <<>> THEN 0
    ELSE (IF failed_only /\ ~Head(log).failed THEN 0 ELSE Head(log).records)
         + LogRecords(Tail(log), failed_only)

FailedFlushes(log) == Cardinality({n \in 1..Len(log) : log[n].failed})

FlushStats == <<total_flushes_, total_records_, failed_flushes_, failed_records_>>

\* C10: whenever no flush is in the middle of recording its statistics,
\* after N flushes with batch sizes k_1..k_N of which the set F failed,
\* total_flushes = N, total_records = sum of the k_i, failed_flushes = |F|
\* and failed_records = sum of the k_i over F; and only a flush recording
\* its statistics changes any of the four.
C10_FlushStatistics ==
    /\ [](cb.pc \notin StatsPcs =>
            /\ total_flushes_ = Len(flush_log)
            /\ total_records_ = LogRecords(flush_log, FALSE)
            /\ failed_flushes_ = FailedFlushes(flush_log)
            /\ failed_records_ = LogRecords(flush_log, TRUE))
    /\ [][FlushStats' # FlushStats => cb.pc \in StatsPcs /\ flush_log' = flush_log]_vars

\* two flushes have completed, one failed and one not, and both are counted
C10_Witness ==
    /\ cb.pc = "idle"
    /\ Len(flush_log) = 2
    /\ FailedFlushes(flush_log) = 1
    /\ total_flushes_ = 2
    /\ failed_records_ = 1

\* the records the runtime still holds or is delivering
PendingRecords == cb.batch \o buffer

\* C11: a kernel-symbol unload notification of kernel K calls the runtime's
\* flush first and erases K only after that call has returned: the registry
\* loses an entry only by the erase of the kernel being unloaded, at that
\* point no held or in-delivery record references K any more, and when the
\* notification has been handled K is absent from the registry.
C11_UnloadFlushesThenErases ==
    /\ [](app.pc = "erase" =>
            \A n \in 1..Len(PendingRecords) : PendingRecords[n].kernel_id # app.kernel)
    /\ [][(DOMAIN kernels) \ (DOMAIN kernels') # {} =>
            /\ app.pc = "erase"
            /\ (DOMAIN kernels) \ (DOMAIN kernels') = {app.kernel}]_vars
    /\ [][app.pc = "erase" /\ app'.pc = "idle" => app.kernel \notin DOMAIN kernels']_vars

\* kernel 1 was loaded and dispatched, its unload notification flushed the
\* record out and has been handled, and the entry is gone
C11_Witness ==
    /\ app.pc = "idle"
    /\ (\E symbol \in rt_seen : symbol[1] = 1) /\ 1 \notin DOMAIN rt_loaded
    /\ 1 \notin DOMAIN kernels
    /\ \E n \in 1..Len(flush_log) : flush_log[n].by = "app"
    /\ failure = "none"

(***************************************************************************)
(* Claims about the kernel registry (checked under RegistrySpec)           *)
(***************************************************************************)
\* what demangling gives for a name: the table's entry, or the name itself
CxaDemangleOrSame(name) ==
    IF name = "_Z6vecAddPfS_S_" THEN "vecAdd(float*, float*, float*)" ELSE name

\* C12: every line the callback has formatted for a dispatch record carries
\* the demangled form of the name the record's kernel id was loaded with
\* when the kernel was dispatched, also when the id had been loaded under
\* another name and unloaded before.
C12_RecordFormattedWithLoadedName ==
    \A n \in 1..Len(cb.data) :
        cb.data[n].kernel = CxaDemangleOrSame(cb.batch[n].loaded_name)

\* a record of kernel 1 is formatted under the demangled name of its second
\* load, after the id was loaded as copy_kernel and unloaded
C12_Witness ==
    /\ failure = "none"
    /\ <<1, "copy_kernel">> \in rt_seen
    /\ \E n \in 1..Len(cb.data) :
        /\ cb.batch[n].kernel_id = 1
        /\ cb.batch[n].loaded_name = "_Z6vecAddPfS_S_"
        /\ cb.data[n].kernel = "vecAdd(float*, float*, float*)"

(***************************************************************************)
(* Claims about the periodic thread and shutdown (checked under TracerSpec)*)
(***************************************************************************)
\* no flush but those the periodic thread asked for has been started
OnlyPeriodicFlushes ==
    /\ rt_flush \in {"none", "periodic"}
    /\ \A n \in 1..Len(flush_log) : flush_log[n].by = "periodic"

\* C13: with no watermark (or unload) flushes, every timed wait of the
\* periodic thread ends at most one interval after it began, and when it has
\* timed out the elapsed-time check passes, so that the round calls
\* rocprofiler_flush_buffer: no round is skipped because the callback thread
\* recorded the time of the previous periodic flush.
C13_PeriodicFlushEveryInterval ==
    OnlyPeriodicFlushes =>
        /\ pt.pc = "waiting" => pt.deadline <= now + FlushInterval
        /\ pt.pc = "check" => now - last_flush_time_ >= FlushInterval

\* the thread has timed out for a later round, after a periodic flush whose
\* callback recorded its time, with records pending
C13_Witness ==
    /\ OnlyPeriodicFlushes
    /\ pt.pc = "check"
    /\ Len(flush_log) >= 1
    /\ last_flush_time_ > 0
    /\ buffer # <<>>

\* C14: once stop_requested_ is set the periodic thread is never at or past
\* its elapsed-time check, and it takes no step that calls
\* rocprofiler_flush_buffer.
C14_NoPeriodicFlushAfterStop ==
    /\ [](stop_requested_ => pt.pc \in {"none", "lock", "waiting", "done"})
    /\ [][stop_requested_ => ~(pt.pc = "flush_call" /\ pt'.pc # "flush_call")]_vars

\* the stop signal is there while the thread's wait has run out with records
\* pending: without the signal this round would flush
C14_Witness ==
    /\ stop_requested_
    /\ pt.pc = "waiting" /\ now >= pt.deadline
    /\ now - last_flush_time_ >= FlushInterval
    /\ buffer # <<>>

\* the steps of ~KernelTracer in program order
DestructorOrder ==
    {<<"none", "notify">>, <<"notify", "join">>, <<"join", "summary">>,
     <<"join", "release">>, <<"summary", "release">>, <<"release", "done">>}

\* C15: the destructor of a running exporter sets the stop flag and notifies,
\* then joins the periodic thread, then prints the summary, then releases the
\* client: its steps come in that order, the summary is not skipped, and the
\* periodic thread has ended whenever the destructor is at or past the
\* summary; the client is released by the destructor's last step only.
C15_ShutdownOrder ==
    /\ [](dt_pc # "none" => stop_requested_)
    /\ [](init_pc = "running" /\ dt_pc \in {"summary", "release", "done"} => pt.pc = "done")
    /\ [](http_client_ = "released" <=> dt_pc = "done")
    /\ [][dt_pc' # dt_pc => <<dt_pc, dt_pc'>> \in DestructorOrder]_vars
    /\ [][init_pc = "running" /\ dt_pc = "join" /\ dt_pc' # dt_pc => dt_pc' = "summary"]_vars

\* a running exporter has been shut down to the end
C15_Witness ==
    /\ init_pc = "running" /\ dt_pc = "done"
    /\ pt.pc = "done" /\ http_client_ = "released"
    /\ failure = "none"

\* C16: when a step of initialize fails, initialize ends by throwing or by
\* returning -1, and from then on the instance is not started: the periodic
\* thread does not exist, the context is not started (no notification or
\* batch reaches the exporter, no dispatch is traced), the last-flush-time is
\* not set, and the outcome of initialize never changes.
C16_FailedInitializeStartsNothing ==
    /\ [](init_pc \in InitFailed =>
            /\ pt.pc = "none"
            /\ ~Tracing
            /\ cb = IdleCallback /\ app = IdleApp /\ rt_flush = "none"
            /\ buffer = <<>> /\ kernels = EmptyMap
            /\ last_flush_time_ = -1 /\ flush_log = <<>>)
    /\ [][(init_pc \in InitFailed) => init_pc' = init_pc]_vars

\* an instance whose initialize returned -1 has been destroyed, no thread
\* ever started
C16_Witness ==
    /\ init_pc = "returned_failure"
    /\ dt_pc = "done"
    /\ pt.pc = "none"

(***************************************************************************)
(* Claims about flush delivery (checked under TracerSpec)                  *)
(***************************************************************************)
\* C17: a flush counts as failed exactly when the Post gave no response or
\* a response with a status of 400 or above, and that outcome is the one
\* flush() hands to the statistics and returns.
C17_SuccessIsResponseBelow400 ==
    cb.pc \in StatsPcs \cup {"return"} =>
        /\ cb.failed <=> (~cb.res.responded \/ cb.res.status >= 400)
        /\ flush_log[Len(flush_log)].failed = cb.failed

\* a flush that got status 399 counts as a success, after one that counted
\* as failed
C17_Witness ==
    /\ cb.pc = "return"
    /\ cb.res = [responded |-> TRUE, status |-> 399] /\ ~cb.failed
    /\ flush_log[1].failed
    /\ failed_flushes_ = 1 /\ total_flushes_ = 2

\* the callback is past the start of a flush, up to its return
FlushInFlight == cb.pc \in {"post", "return"} \cup StatsPcs

\* C18: a flush records the current time as last_flush_time_ when it starts,
\* before the Post; no later step of the flush changes it, whether the Post
\* succeeds or fails, so it is never earlier than the attempt's start; and
\* nothing but the start of a flush and initialize sets it.
C18_FlushTimeIsAttemptStart ==
    /\ [](FlushInFlight => last_flush_time_ >= cb.started)
    /\ [][cb.pc = "format" /\ cb'.pc = "post" => last_flush_time_' = now]_vars
    /\ [][FlushInFlight /\ cb' # cb => last_flush_time_' = last_flush_time_]_vars
    /\ [][last_flush_time_' # last_flush_time_ =>
            (cb.pc = "format" /\ cb'.pc = "post") \/ init_pc = "context_started"]_vars

\* a flush has failed some time after it started, and the recorded time is
\* still the start of the attempt
C18_Witness ==
    /\ cb.pc = "return" /\ cb.failed
    /\ cb.started > 0 /\ now > cb.started
    /\ last_flush_time_ = cb.started

\* the records of a batch handed to the callback and not yet posted
NotYetPosted == IF cb.pc \in {"entry", "format", "post"} THEN Len(cb.batch) ELSE 0

\* C19: every traced record is in the runtime's buffer, or in a batch on its
\* way to its one Post, or has been posted once: the posted records never
\* outnumber the delivered ones, so no batch is posted twice or carried into
\* a later batch; and a callback whose flush failed returns like any other,
\* leaving the buffer alone and raising no failure.
C19_FailedBatchIsDropped ==
    /\ [](dispatched = Len(buffer) + NotYetPosted + LogRecords(flush_log, FALSE))
    /\ [][cb.pc = "return" /\ cb.failed /\ cb' # cb =>
            /\ cb' = IdleCallback /\ rt_flush' = "none"
            /\ buffer' = buffer /\ failure' = failure]_vars

\* a batch failed and was dropped, the next batch was accepted and sent
C19_Witness ==
    /\ cb.pc = "idle" /\ buffer = <<>>
    /\ Len(flush_log) = 2
    /\ flush_log[1].failed /\ ~flush_log[2].failed
    /\ dispatched = 2 /\ total_records_ = 2 /\ failed_records_ = 1

\* the line the spec gives for a record: node_index,"kernel_name",start,end
ExpectedLine(record) ==
    ToString(build_agent_map[record.agent_id]) \o ",\""
    \o CxaDemangleOrSame(record.loaded_name) \o "\","
    \o ToString(record.start_timestamp) \o "," \o ToString(record.end_timestamp) \o "\n"

RECURSIVE ExpectedBody(_)
ExpectedBody(batch) ==
    IF batch = <<>> THEN "" ELSE ExpectedLine(Head(batch)) \o ExpectedBody(Tail(batch))

\* C20: the body the callback posts for a batch of n records is the
\* concatenation, in batch order, of the n lines
\* node_index,"kernel_name",start_timestamp,end_timestamp; the batch has one
\* Post, and n is the batch size the statistics are given.
C20_OnePostOfAllLines ==
    /\ [](FlushInFlight => cb.body = ExpectedBody(cb.batch))
    /\ [][cb.pc = "post" /\ cb'.pc # "post" =>
            /\ Len(flush_log') = Len(flush_log) + 1
            /\ flush_log'[Len(flush_log')].records = Len(cb.batch)]_vars
    /\ [][flush_log' # flush_log => cb.pc = "post"]_vars
    /\ [][total_records_' # total_records_ =>
            total_records_' = total_records_ + Len(cb.batch)]_vars

\* a batch of two records, of different kernels and agents, is being posted
C20_Witness ==
    /\ cb.pc = "post" /\ Len(cb.batch) = 2
    /\ cb.body = "0,\"vecAdd(float*, float*, float*)\",1,2\n1,\"copy_kernel\",3,4\n"

(***************************************************************************)
(* Claims about full_buffer_callback (checked under CallbackSpec)          *)
(***************************************************************************)
\* the callback was handed no records or a null array
RejectedBatch == Len(cb.batch) = 0 \/ cb.headers = "null"

\* initialize is at its own record_flush_time() (line 351)
InitializeRecordsTime == init_pc = "context_started" /\ init_pc' = "running"

\* C21: a full_buffer_callback handed zero records or a null record array
\* ends in a failure and does nothing else: it never leaves its entry, so it
\* formats no line and begins no Post, and while it is there the four
\* counters and the requests made stay as they are and the last flush time
\* changes only by initialize's own record of it.
C21_EmptyOrNullBatchIsRejected ==
    /\ [](RejectedBatch => cb.pc \in {"idle", "entry"} /\ cb.data = <<>>)
    /\ [](failure \in {"no_headers", "null_headers"} <=>
            (failure # "none" /\ cb.pc = "entry" /\ RejectedBatch))
    /\ [][(cb.pc = "entry" /\ RejectedBatch) =>
            /\ FlushStats' = FlushStats /\ flush_log' = flush_log
            /\ (last_flush_time_' # last_flush_time_ => InitializeRecordsTime)
            /\ cb' = cb]_vars

\* after one batch went through, the callback was handed one record with a
\* null array and the process has failed on it, the earlier flush its only one
C21_Witness ==
    /\ failure = "null_headers"
    /\ Len(cb.batch) = 1 /\ cb.headers = "null"
    /\ Len(flush_log) = 1 /\ total_flushes_ = 1

\* the record references an agent outside the agent map or a kernel outside
\* the registry
UnknownRecord(record) ==
    record.agent_id \notin DOMAIN agents \/ record.kernel_id \notin DOMAIN kernels

\* C22: a record of an agent that is not in the agent map or of a kernel that
\* is not in the registry gets no line: every line written is the one of a
\* record whose agent and kernel were found, with the values found; the
\* callback does not move past a record it cannot resolve; and the failure it
\* raises leaves it at that record with the lines of the records before it.
C22_UnknownAgentOrKernelFails ==
    /\ [](\A n \in 1..Len(cb.data) :
            /\ ~UnknownRecord(cb.batch[n])
            /\ cb.data[n].gpu_id = agents[cb.batch[n].agent_id]
            /\ cb.data[n].kernel = kernels[cb.batch[n].kernel_id])
    /\ [](failure = "out_of_range" =>
            /\ cb.pc = "format" /\ cb.i <= Len(cb.batch)
            /\ UnknownRecord(cb.batch[cb.i])
            /\ Len(cb.data) = cb.i - 1)
    /\ [][(cb.pc = "format" /\ cb.i <= Len(cb.batch) /\ UnknownRecord(cb.batch[cb.i])) =>
            cb' = cb /\ flush_log' = flush_log]_vars

\* the first record of a batch of two was formatted and the second, of kernel
\* 3 which was never loaded, has ended the callback with a failure
C22_Witness ==
    /\ failure = "out_of_range"
    /\ Len(cb.batch) = 2 /\ cb.i = 2 /\ Len(cb.data) = 1
    /\ cb.batch[2].kernel_id = 3 /\ cb.batch[2].agent_id \in DOMAIN agents

(***************************************************************************)
(* Claims about the exporter's threads (checked under TracerSpec)          *)
(***************************************************************************)
\* C23: a dispatch record captured while its kernel was registered is always
\* formatted successfully, under any interleaving of unload notifications,
\* periodic flushes and buffer deliveries: with no load notification in
\* progress, the lookups the callback makes for a record of a delivered batch
\* never fail and never fault.
C23_RegisteredRecordIsFormatted ==
    ~(/\ cb.pc = "format" /\ cb.i <= Len(cb.batch)
      /\ app.pc # "emplace"
      /\ failure \in {"out_of_range", "kernels_data_race"})

\* less than the interval has elapsed since the last recorded flush attempt
WithinInterval == (now - last_flush_time_) < FlushInterval

\* C24 as stated: the periodic thread never calls rocprofiler_flush_buffer
\* at a moment when less than the configured interval has elapsed since the
\* last recorded flush attempt.
C24_NoFlushCallWithinInterval ==
    [][(pt.pc = "flush_call" /\ pt'.pc # "flush_call") => ~WithinInterval]_vars

\* C24 as amended: the periodic thread calls rocprofiler_flush_buffer only
\* after its check of this wake found at least the interval elapsed since the
\* flush attempt last recorded by then; a check that finds less ends the round
\* with no action: the thread goes back to take the lock and wait, and nothing
\* but its own position and the mutex changes.
C24_FlushCallOnlyAfterCheckedInterval ==
    /\ [][(pt.pc = "check" /\ pt' # pt) =>
            IF WithinInterval
            THEN /\ pt' = [pt EXCEPT !.pc = "lock"] /\ periodic_mutex_' = "free"
                 /\ UNCHANGED <<cb, buffer, rt_flush, FlushStats, last_flush_time_,
                                flush_log, kernels, failure>>
            ELSE pt'.pc = "flush_call"]_vars
    /\ [][(pt'.pc = "flush_call" /\ pt.pc # "flush_call") =>
            pt.pc = "check" /\ ~WithinInterval]_vars

\* the periodic thread has timed out of its wait and is at its check, with a
\* flush of the callback recorded less than one interval ago
C24_Witness ==
    /\ pt.pc = "check" /\ WithinInterval
    /\ Len(flush_log) >= 1 /\ last_flush_time_ = now
    /\ failure = "none"

\* a step of the periodic thread itself: its state changes and neither
\* initialize nor the destructor is the one changing it
PeriodicThreadStep == pt' # pt /\ init_pc' = init_pc /\ dt_pc' = dt_pc

\* C27: a step of the periodic thread leaves the client, the four counters,
\* the last flush time, the registry and the requests made as they are, and
\* takes the callback neither into nor out of a Post; once the thread exists,
\* the counters and the flush time change only in steps of the callback and
\* the registry only in steps of a load or unload notification.
C27_PeriodicThreadFrame ==
    /\ [][PeriodicThreadStep =>
            /\ UNCHANGED <<http_client_, FlushStats, last_flush_time_, kernels, flush_log>>
            /\ (cb'.pc = "post" <=> cb.pc = "post")]_vars
    /\ [][(pt.pc # "none" /\ <<FlushStats, last_flush_time_>>' # <<FlushStats, last_flush_time_>>) =>
            cb' # cb /\ pt' = pt]_vars
    /\ [][kernels' # kernels =>
            app.pc \in {"emplace", "erase"} /\ app'.pc = "idle" /\ pt' = pt]_vars

\* the periodic thread is inside its flush call, which has delivered a batch
\* of two; the callback has posted it and counted it
C27_Witness ==
    /\ pt.pc = "flush_wait" /\ pt.status = "success" /\ rt_flush = "periodic"
    /\ cb.pc = "return" /\ Len(cb.batch) = 2
    /\ total_flushes_ = 1 /\ total_records_ = 2
    /\ last_flush_time_ = cb.started

\* the thread whose call of rocprofiler_flush_buffer is in progress is
\* inside that call
FlushCallerWaits ==
    /\ (rt_flush = "periodic" => pt.pc = "flush_wait" /\ pt.status = "success")
    /\ (rt_flush = "app" => app.pc \in {"unload_wait", "object_wait"})

\* C28: at most one request is in flight: a request is in flight only while
\* the callback thread is inside the Post of flush(), which is inside a
\* runtime-side flush whose caller, if a thread of the exporter, is still
\* waiting in its call; a batch is handed to the callback only when no
\* callback is running and no flush is in progress; and a request that
\* returns is the one the callback was waiting for.
C28_OneRequestInFlight ==
    /\ [](cb.pc # "idle" => rt_flush # "none" /\ FlushCallerWaits)
    /\ [][(cb'.pc = "entry" /\ cb.pc # "entry") => cb.pc = "idle" /\ rt_flush = "none"]_vars
    /\ [][flush_log' # flush_log =>
            /\ cb.pc = "post" /\ cb'.pc # "post"
            /\ Len(flush_log') = Len(flush_log) + 1]_vars
    /\ [][(cb.pc = "post" /\ cb'.pc = "post") => cb' = cb]_vars

\* a request is in flight for a batch the periodic thread's flush delivered,
\* and the buffer already holds a record for the next one
C28_Witness ==
    /\ cb.pc = "post" /\ rt_flush = "periodic"
    /\ Len(cb.batch) = 1 /\ Len(buffer) = 1
    /\ app.pc = "idle" /\ 1 \in DOMAIN rt_loaded
    /\ failure = "none"

(***************************************************************************)
(* Claims about the notifications (checked under RegistrySpec)             *)
(***************************************************************************)
\* a step of the application thread in a code-object unload notification
CodeObjectStep == app' # app /\ "object_wait" \in {app.pc, app'.pc}

\* C29: a code-object unload notification calls rocprofiler_flush_buffer
\* once, on entry; with a success or busy status it returns and raises no
\* failure, with any other status it raises a failure and does not return;
\* and no step of it changes the registry or the four counters.
C29_CodeObjectUnloadToleratesBusy ==
    /\ [](failure \notin {"object_flush_busy", "object_flush_success"})
    /\ [][CodeObjectStep =>
            /\ UNCHANGED <<kernels, FlushStats, failure>>
            /\ \/ app.pc = "idle" /\ app'.status \in {"success", "busy", "error"}
               \/ app.status \in {"success", "busy"} /\ app' = IdleApp]_vars
    /\ [][(app.pc = "idle" /\ app'.pc = "object_wait") =>
            /\ (cb' # cb => app'.status = "success" /\ cb'.pc = "entry")
            /\ (app'.status # "success" => UNCHANGED <<cb, buffer, rt_flush>>)]_vars
    /\ [][(failure = "none" /\ failure' = "object_flush_error") =>
            UNCHANGED <<kernels, FlushStats, app, cb>>]_vars
    /\ [](failure = "object_flush_error" => app.pc = "object_wait" /\ app.status = "error")

\* a code-object unload notification has asked for a flush while the
\* callback was formatting a delivered batch and holds the busy status,
\* kernel 1 registered and the process alive
C29_Witness ==
    /\ app.pc = "object_wait" /\ app.status = "busy"
    /\ rt_flush \in {"watermark", "periodic"} /\ cb.pc = "format"
    /\ 1 \in DOMAIN kernels
    /\ failure = "none"

(***************************************************************************)
(* Claims about the shutdown (checked under ShutdownSpec)                  *)
(***************************************************************************)
\* the join of line 365 has returned
JoinReturned == dt_pc \in {"summary", "release", "done"}

\* C25: once ~KernelTracer has set stop_requested_ on a running exporter,
\* the periodic thread ends and the join returns, whether or not the clock
\* advances and wherever the thread was when the flag was set and when the
\* notification came, as long as the process lives.
C25_StopEndsPeriodicThread ==
    (stop_requested_ /\ init_pc = "running") ~>
        ((pt.pc = "done" /\ JoinReturned) \/ ~Alive)

\* the periodic thread was waiting when the notification came, has ended
\* before the deadline of its wait, and the join has returned
C25_Witness ==
    /\ pt.pc = "done" /\ pt.notified /\ now < pt.deadline
    /\ dt_pc = "summary"
    /\ failure = "none"

\* C26: no result of rocprofiler_flush_buffer ends the periodic thread or
\* the process: with the status in hand, success, busy or any other, the
\* thread's next step takes it back to the head of its loop; and the thread
\* ends only with stop_requested_ set, from the head of the loop or from its
\* wait.
C26_OnlyStopEndsPeriodicThread ==
    /\ [](pt.pc = "done" => stop_requested_)
    /\ [](failure \notin {"periodic_flush_success", "periodic_flush_busy",
                          "periodic_flush_error"})
    /\ [][(pt.pc = "flush_wait" /\ pt' # pt) => pt'.pc = "lock" /\ failure' = "none"]_vars
    /\ [][(pt.pc # "done" /\ pt'.pc = "done") =>
            stop_requested_ /\ pt.pc \in {"lock", "waiting"}]_vars

\* rocprofiler_flush_buffer has answered the periodic thread with an error
\* other than busy while nobody else was flushing, and the thread and the
\* process live on
C26_Witness ==
    /\ pt.pc = "flush_wait" /\ pt.status = "error"
    /\ rt_flush = "none" /\ buffer # <<>>
    /\ ~stop_requested_ /\ failure = "none"

(***************************************************************************)
(* Claims about the profile-selection callback (checked under ProfileSpec) *)
(***************************************************************************)
\* C30: whenever the runtime asks, the sampler supplies the handle of the
\* profile made active by the most recent successful start(), and supplies
\* nothing if no start() has succeeded yet.
C30_SuppliesProfileOfLastSuccessfulStart ==
    last_call.op = "set_profile" =>
        last_call.result = IF last_started = NoRequest THEN <<>>
                           ELSE <<cached_profiles_[CacheKey(last_started)]>>

(***************************************************************************)
(* Further claims about the Counter Sampler (checked under SamplerSpec)    *)
(***************************************************************************)
\* the total scalar size of a supported request: each occurrence of a counter
\* adds the product of its per-dimension instance sizes
TotalScalarSize(counters) ==
    SeqSum([i \in DOMAIN counters |->
               SeqProduct(CounterDimensions[get_supported_counters[counters[i]]])])

\* C31: after every successful start(C), on a cache miss and on a cache hit
\* alike, the raw-record buffer has exactly as many slots as the active
\* profile's total scalar size, the sum over the counters of C (each
\* occurrence counted) of the product of the counter's instance sizes.
C31_BufferHasTotalScalarSize ==
    (IsStart /\ last_call.status = "ok") =>
        /\ Len(records_) = TotalScalarSize(last_call.arg)
        /\ profile_ \in DOMAIN profile_sizes_
        /\ profile_sizes_[profile_] = TotalScalarSize(last_call.arg)

\* a start() of the request with a duplicate returned as a cache hit: its
\* profile was the first one created, and the buffer still holds records of a
\* sample taken under the larger request started in between
C31_Witness ==
    /\ IsStart
    /\ last_call.status = "ok"
    /\ last_call.arg = <<"GRBM_COUNT", "GRBM_COUNT">>
    /\ Len(records_) = 2
    /\ resolution_calls = 2
    /\ started_ok = {<<"GRBM_COUNT", "GRBM_COUNT">>, <<"SQ_WAVES", "GRBM_COUNT">>}
    /\ cached_profiles_[<<"GRBM_COUNT", "GRBM_COUNT">>] = 1
    /\ \E i \in DOMAIN records_ : query_record_counter_id(records_[i].id) = 2

\* C32: cache entries are never evicted or rewritten: once a sequence is
\* cached, every later state maps it to the same profile handle, the same
\* total size and the same ordered counter-id list, whatever start, stop or
\* sample call follows, failed starts included.
C32_CacheEntriesAreNeverRewritten ==
    [][ \A c \in DOMAIN cached_profiles_ :
            LET handle == cached_profiles_[c]
            IN  /\ c \in DOMAIN cached_profiles_'
                /\ cached_profiles_'[c] = handle
                /\ handle \in DOMAIN profile_sizes_'
                /\ profile_sizes_'[handle] = profile_sizes_[handle]
                /\ handle \in DOMAIN profile_counter_ids_'
                /\ profile_counter_ids_'[handle] = profile_counter_ids_[handle]
      ]_vars

\* two sequences are cached, a sample has delivered records, the context was
\* stopped, and the start() that returned last was refused as unsupported
C32_Witness ==
    /\ Cardinality(DOMAIN cached_profiles_) = 2
    /\ \E i \in DOMAIN records_ : records_[i].counter_value > 0
    /\ ~ctx_active
    /\ IsStart
    /\ last_call.status = "unsupported"

\* the profile handles the sequence-to-profile table stores
CachedHandles == {cached_profiles_[c] : c \in DOMAIN cached_profiles_}

\* C39: after any sequence of start, stop and sample calls, a sample() before
\* any start included, the three cache tables are consistent: the handles
\* stored in the sequence-to-profile table are exactly the keys of the
\* handle-to-size table and of the handle-to-counter-id-list table, and the
\* active profile handle is none or one of them.
C39_CacheTablesAreConsistent ==
    /\ DOMAIN profile_sizes_ = CachedHandles
    /\ DOMAIN profile_counter_ids_ = CachedHandles
    /\ profile_ = 0 \/ profile_ \in CachedHandles

(***************************************************************************)
(* Claims about the buffer's watermark (checked under CapacitySpec)        *)
(***************************************************************************)
BufferCreated == rt_watermark # -1

\* C33 as stated: for every configured capacity c of at least one byte the
\* watermark passed to the runtime is c minus the integer quotient c/8 and is
\* strictly less than c.
C33_WatermarkBelowCapacity ==
    BufferCreated =>
        /\ buffer_size_bytes_ - rt_watermark = buffer_size_bytes_ \div 8
        /\ rt_watermark < buffer_size_bytes_

\* C33 as amended: the watermark is c minus the integer quotient c/8; it is
\* strictly less than c exactly when c is at least 8 bytes, and it is c
\* itself for the capacities of 1 to 7 bytes.
C33_WatermarkIsCapacityMinusEighth ==
    BufferCreated =>
        /\ buffer_size_bytes_ - rt_watermark = buffer_size_bytes_ \div 8
        /\ rt_watermark >= 1
        /\ (buffer_size_bytes_ >= 8) <=> (rt_watermark < buffer_size_bytes_)
        /\ (buffer_size_bytes_ < 8) <=> (rt_watermark = buffer_size_bytes_)

\* the context started on a buffer of 20 bytes with the watermark at 18
C33_Witness ==
    /\ init_pc = "context_started"
    /\ buffer_size_bytes_ = 20
    /\ rt_watermark = 18

(***************************************************************************)
(* Further claims about the exporter (checked under TracerSpec)            *)
(***************************************************************************)
PeriodicThreadExists == pt.pc # "none"

\* C34: on a successful initialization the last-flush-time is recorded before
\* the periodic thread is started, so the thread never reads a last-flush-time
\* that has not been set; and the thread is started only after the runtime
\* has validated and started the context.
C34_FlushTimeSetBeforeThreadStarts ==
    /\ [](PeriodicThreadExists => (last_flush_time_ >= 0 /\ init_pc = "running"))
    /\ [][(~PeriodicThreadExists /\ PeriodicThreadExists') =>
              (init_pc = "context_started" /\ last_flush_time_' >= 0)]_vars

\* the periodic thread is at its comparison of the clock with the
\* last-flush-time, which no flush has written since initialize
C34_Witness ==
    /\ pt.pc = "check"
    /\ flush_log = <<>>
    /\ cb = IdleCallback
    /\ last_flush_time_ = 0
    /\ now > 0

(***************************************************************************)
(* Further claims about the callback (checked under CallbackSpec)          *)
(***************************************************************************)
\* C35: the agent map is built once, during initialize, and is never changed
\* afterwards: no callback and no flush inserts, removes or rewrites an entry,
\* also when a dispatch record names an agent the map does not hold.
C35_AgentMapIsBuiltOnce ==
    /\ [][agents' # agents =>
              (init_pc = "new" /\ init_pc' # "new" /\ agents' = build_agent_map)]_vars
    /\ [](init_pc = "running" => agents = build_agent_map)

\* the callback has failed on a record of a registered kernel whose agent the
\* map does not hold
C35_Witness ==
    /\ failure = "out_of_range"
    /\ cb.pc = "format"
    /\ cb.batch[cb.i].agent_id \notin DOMAIN build_agent_map
    /\ cb.batch[cb.i].kernel_id \in DOMAIN kernels
    /\ agents = build_agent_map

(***************************************************************************)
(* Further claims about the sampler and its callback (under ProfileSpec)   *)
(***************************************************************************)
AfterUnsupportedStart == IsStart /\ last_call.status = "unsupported"

\* C36: a start() that fails with an unsupported counter leaves the active
\* profile handle, the size of the raw-record buffer and the three cache
\* tables as they were and does not start the context; the profile-selection
\* callback and a sample() that follow still use the request started before.
C36_UnsupportedStartChangesNothing ==
    /\ [][(last_call'.op = "start" /\ last_call'.status = "unsupported") =>
              /\ UNCHANGED <<profile_, cached_profiles_, profile_sizes_,
                             profile_counter_ids_, ctx_active, rt_profile, records_>>
              /\ Len(records_') = Len(records_)]_vars
    /\ [][(AfterUnsupportedStart /\ active_request # NoRequest
              /\ last_call'.op = "set_profile") =>
              last_call'.result = <<cached_profiles_[CacheKey(active_request)]>>]_vars
    /\ [][(AfterUnsupportedStart /\ active_request # NoRequest
              /\ last_call'.op = "sample") =>
              last_call'.result =
                  [i \in 1..Len(active_request) |->
                      AggregateOf(records_', get_supported_counters[active_request[i]])]
          ]_vars

\* a start() has just been refused as unsupported while the request started
\* before it is in effect, its context started and its records sampled
C36_Witness ==
    /\ AfterUnsupportedStart
    /\ active_request = <<"SQ_WAVES", "GRBM_COUNT">>
    /\ ctx_active
    /\ profile_ = cached_profiles_[<<"SQ_WAVES", "GRBM_COUNT">>]
    /\ Len(records_) = 3
    /\ \E i \in DOMAIN records_ : records_[i].counter_value > 0

FormatFailures == {"out_of_range", "unexpected_record"}

\* a record the loop cannot format: of another kind, of an agent the map
\* does not hold, or of a kernel the registry does not hold
Unformattable(record) ==
    \/ record.kind # "kernel_dispatch"
    \/ record.agent_id \notin DOMAIN agents
    \/ record.kernel_id \notin DOMAIN kernels

\* C37: if formatting fails on any record of a batch (unknown agent,
\* unregistered kernel, or a record that is not a kernel-dispatch record),
\* nothing of that batch is transmitted, not even the lines already
\* formatted, and the statistics and the last-flush-time are unchanged.
C37_FailedBatchIsNotTransmitted ==
    /\ [](failure \in FormatFailures =>
            /\ cb.pc = "format" /\ cb.i <= Len(cb.batch)
            /\ Unformattable(cb.batch[cb.i])
            /\ cb.body = "" /\ cb.started = -1
            /\ LogRecords(flush_log, FALSE) + Len(cb.batch) = dispatched
            /\ total_flushes_ = Len(flush_log)
            /\ total_records_ = LogRecords(flush_log, FALSE))
    /\ [](cb.pc \notin {"idle", "entry", "format"} =>
            \A n \in 1..Len(cb.batch) : ~Unformattable(cb.batch[n]))
    /\ [][(failure = "none" /\ failure' \in FormatFailures) =>
              UNCHANGED <<FlushStats, last_flush_time_, flush_log, cb>>]_vars

\* the first record of a batch of two was formatted, and the second, which
\* is not a kernel-dispatch record, has ended the callback
C37_Witness ==
    /\ failure = "unexpected_record"
    /\ Len(cb.batch) = 2 /\ cb.i = 2 /\ Len(cb.data) = 1
    /\ cb.batch[2].kind = "other"
    /\ flush_log = <<>>

(***************************************************************************)
(* Claims about the statistics (checked under TracerSpec)                  *)
(***************************************************************************)
\* C38: in every reachable state, the states between the atomic increments
\* of one flush included, failed_flushes <= total_flushes and
\* failed_records <= total_records, and no counter ever decreases; so the
\* differences total - failed of the shutdown summary never underflow.
C38_SummaryNeverUnderflows ==
    /\ [](failed_flushes_ <= total_flushes_ /\ failed_records_ <= total_records_)
    /\ [][/\ total_flushes_' >= total_flushes_ /\ total_records_' >= total_records_
          /\ failed_flushes_' >= failed_flushes_
          /\ failed_records_' >= failed_records_]_vars
    /\ [](dt_summary.successful_records >= 0 /\ dt_summary.successful_flushes >= 0)

====
